---- MODULE Spec2Model ----
(***************************************************************************)
(* Batched 3D render passes of amethyst_rendy: DrawBase3D (opaque),        *)
(* DrawBase3DTransparent (pass/base_3d.rs) and DrawPbm (pass/pbm.rs).      *)
(* One render group is followed over a bounded number of frames: the       *)
(* scheduler calls prepare(index) and then draw(index); between frames the *)
(* world (assets, visibility) may change.                                  *)
(***************************************************************************)
EXTENDS Integers, Sequences, FiniteSets, TLC

\* ------------------------------------------------------------------ bounds
NumEntities == 2
NumSlots == 2
MaxFrames == 3
GatherFrames == 2
\* How many entities the join of a DrawPbm::prepare followed step by step
\* still yields at most.
MaxScanSteps == 2

\* The largest min_uniform_buffer_offset_alignment followed is 2 ^ MaxAlignLog.
MaxAlignLog == 11

Entities == 1..NumEntities
\* Asset ids: every entity may carry a material and a mesh of its own.
Materials == 1..NumEntities
Meshes == 1..NumEntities
Slots == 0..(NumSlots - 1)

\* pbm.rs:244: insert_batch scans at most this many batches of a material.
ScanLimit == 8

\* pbm.rs:74-76: the lengths of the light arrays of the environment buffer.
MAX_POINT_LIGHTS == 128
MAX_DIR_LIGHTS == 16
MAX_SPOT_LIGHTS == 128

VARIABLES
    pass,             \* which render group is under study: "opaque", "transparent", "pbm"
    pipeline_skinned, \* DrawBase3DDesc::skinning, which a pass that was built meets as
                      \* pipeline_skinned.is_some()
    ecs,              \* component storages: materials, meshes, joints, hiddens, hiddens_prop, transparent
    hash_order,       \* the iteration order of the FnvHashMaps keyed by material id
    slots,            \* the frame slots the frame scheduler uses
    mesh_storage,     \* AssetStorage<Mesh>: ids of the loaded meshes
    tex_ready,        \* materials all of whose textures are loaded
    mat_events,       \* materials whose asset changed since the last maintain()
    visibility,       \* the Visibility resource, or NoVisibility
    phase,            \* "unbuilt", "idle", "prepared" (draw is next), "drawn", "disposed";
                      \* "failed" (build returned Err), "panicked"
    device,           \* the create/destroy calls made on the device for pipeline resources
    pass_pipelines,   \* the fields pipeline_basic, pipeline_skinned, pipeline_layout of the pass
    ubo_offset_align, \* DrawPbm::ubo_offset_align: limits.min_uniform_buffer_offset_alignment
    lights,           \* the number of point, directional and spot lights of the world
    size_of,          \* std::mem::size_of of the std140 types and of Transform, in bytes
    per_image,        \* DrawPbm::per_image: the buffers and sets of each frame slot
    scan,             \* DrawPbm::prepare while its join is followed entity by entity:
                      \* the local `block`, the number of entities the join has
                      \* yielded and the number it has still to yield
    run_frames,       \* how many frames the graph runs
    index,            \* the frame slot of the last prepare
    calls,            \* history: one record per prepare that returned
    static_batches,   \* TwoLevelBatch (opaque) or OrderedTwoLevelBatch (transparent)
    skinned_batches,
    models,           \* DynamicVertex<VertexArgs>: per frame slot
    skinned_models,   \* DynamicVertex<SkinnedVertexArgs>: per frame slot
    mtl,              \* MaterialSub
    skinning,         \* SkinningSub: joints committed per frame slot
    change,           \* util::ChangeDetection
    frame,            \* what the last prepare saw and did (history of one call)
    env,              \* EnvironmentSub: frame slots whose uniforms were uploaded
    encoder,          \* commands recorded by the last draw
    materials_data    \* DrawPbm::materials_data

vars == <<pass, pipeline_skinned, ecs, hash_order, slots, mesh_storage, tex_ready,
          mat_events, visibility, phase, device, pass_pipelines, ubo_offset_align, size_of,
          lights, per_image, scan, run_frames, index, calls, static_batches,
          skinned_batches, models, skinned_models, mtl, skinning, change, frame, env, encoder,
          materials_data>>

NoVisibility == [present |-> FALSE, visible_unordered |-> {}, visible_ordered |-> <<>>]

\* ----------------------------------------------------------------- helpers
Range(s) == {s[i] : i \in 1..Len(s)}

Max(S) == CHOOSE x \in S : \A y \in S : y <= x

RECURSIVE Flatten(_)
Flatten(ss) == IF ss = <<>> THEN <<>> ELSE Head(ss) \o Flatten(Tail(ss))

\* Sequences of distinct elements of S, of every length.
RECURSIVE InjSeqs(_)
InjSeqs(S) ==
    {<<>>} \cup UNION {{<<x>> \o t : t \in InjSeqs(S \ {x})} : x \in S}

Perms(S) == {s \in InjSeqs(S) : Len(s) = Cardinality(S)}

\* specs::Join over bit sets visits entity ids in increasing order.
RECURSIVE Ascending(_)
Ascending(S) ==
    IF S = {} THEN <<>>
    ELSE LET m == CHOOSE x \in S : \A y \in S : x <= y
         IN  <<m>> \o Ascending(S \ {m})

\* Asset ids are opaque keys: a world is taken up to renaming of the ids, its
\* first entity carrying id 1 and every further entity an id already seen or the next.
Canonical(f) ==
    /\ f[1] = 1
    /\ \A e \in Entities \ {1} : f[e] <= Max({f[d] : d \in 1..(e - 1)}) + 1

\* ------------------------------------------------------- instance records
VertexArgs(e) == [model |-> e, joints_offset |-> -1]

SkinnedVertexArgs(e, offset) == [model |-> e, joints_offset |-> offset]

Transform(e) == [model |-> e, joints_offset |-> -1]

\* ------------------------------------------------ batch.rs: GroupIterator
\* for_each_group: the maximal runs of consecutive items with equal keys, in
\* order; on_group is called once per run with the run's values.
RECURSIVE Groups(_)
Groups(items) ==
    IF items = <<>> THEN <<>>
    ELSE LET h == Head(items)
             rest == Groups(Tail(items))
         IN  IF rest # <<>> /\ rest[1].key = h.key
             THEN <<[key |-> h.key, data |-> <<h.value>> \o rest[1].data]>> \o Tail(rest)
             ELSE <<[key |-> h.key, data |-> <<h.value>>]>> \o rest

\* ------------------------------------------------ batch.rs: TwoLevelBatch
\* map: material id -> sequence of (mesh id, instance records); data_count.
TwoLevel_new == [map |-> <<>>, data_count |-> 0]

TwoLevel_clear_inner(b) ==
    [map |-> [pk \in DOMAIN b.map |-> <<>>], data_count |-> 0]

TwoLevel_prune(b) ==
    [b EXCEPT !.map = [pk \in {k \in DOMAIN b.map : Len(b.map[k]) > 0} |-> b.map[pk]]]

TwoLevel_insert(b, pk, sk, data) ==
    LET old == IF pk \in DOMAIN b.map THEN b.map[pk] ELSE <<>>
        hit == {i \in 1..Len(old) : old[i].sk = sk}
        new == IF hit # {}
               THEN LET i == CHOOSE j \in hit : \A k \in hit : j <= k
                    IN  [old EXCEPT ![i].data = @ \o data]
               ELSE Append(old, [sk |-> sk, data |-> data])
    IN  [map |-> [k \in DOMAIN b.map \cup {pk} |-> IF k = pk THEN new ELSE b.map[k]],
         data_count |-> b.data_count + Len(data)]

\* Iteration follows the hash map's order of the material ids present.
TwoLevel_iter(b, order) ==
    LET keys == SelectSeq(order, LAMBDA k : k \in DOMAIN b.map)
    IN  [i \in 1..Len(keys) |-> [pk |-> keys[i], batches |-> b.map[keys[i]]]]

TwoLevel_data(b, order) ==
    LET it == TwoLevel_iter(b, order)
    IN  Flatten([i \in 1..Len(it) |->
                    Flatten([j \in 1..Len(it[i].batches) |-> it[i].batches[j].data])])

TwoLevel_count(b) == b.data_count

\* ----------------------------------------- batch.rs: OrderedTwoLevelBatch
\* pk_list: (material, number of its runs); sk_list: (mesh, range into
\* data_list); the old_ lists are the previous frame's.
Ordered_new ==
    [old_pk_list |-> <<>>, old_sk_list |-> <<>>,
     pk_list |-> <<>>, sk_list |-> <<>>, data_list |-> <<>>]

Ordered_swap_clear(b) ==
    [old_pk_list |-> b.pk_list, old_sk_list |-> b.sk_list,
     pk_list |-> <<>>, sk_list |-> <<>>, data_list |-> <<>>]

Ordered_insert(b, pk, sk, data) ==
    LET start == Len(b.data_list)
        end == start + Len(data)
        np == Len(b.pk_list)
        ns == Len(b.sk_list)
        same_pk == np > 0 /\ b.pk_list[np].pk = pk
        same_sk == ns > 0 /\ b.sk_list[ns].sk = sk
        run == [sk |-> sk, start |-> start, end |-> end]
    IN  IF same_pk /\ same_sk
        THEN [b EXCEPT !.data_list = @ \o data, !.sk_list[ns].end = end]
        ELSE IF same_pk
        THEN [b EXCEPT !.data_list = @ \o data, !.pk_list[np].len = @ + 1,
                       !.sk_list = Append(@, run)]
        ELSE [b EXCEPT !.data_list = @ \o data,
                       !.pk_list = Append(@, [pk |-> pk, len |-> 1]),
                       !.sk_list = Append(@, run)]

Ordered_data(b) == b.data_list

Ordered_count(b) == Len(b.data_list)

RECURSIVE Ordered_iter_from(_, _, _)
Ordered_iter_from(pks, sks, pk_offset) ==
    IF pks = <<>> THEN <<>>
    ELSE <<[pk |-> Head(pks).pk,
            batches |-> SubSeq(sks, pk_offset + 1, pk_offset + Head(pks).len)]>>
         \o Ordered_iter_from(Tail(pks), sks, pk_offset + Head(pks).len)

Ordered_iter(b) == Ordered_iter_from(b.pk_list, b.sk_list, 0)

Ordered_changed(b) ==
    b.pk_list # b.old_pk_list \/ b.sk_list # b.old_sk_list

\* ------------------------------------------- submodules: DynamicVertex
\* One buffer per frame slot; <<>> stands for a slot never written.
DynamicVertex_new == [i \in Slots |-> <<>>]

DynamicVertex_write(buf, i, count, data) ==
    IF count = 0 THEN buf ELSE [buf EXCEPT ![i] = data]

DynamicVertex_bind(buf, i) == buf[i] # <<>>

\* --------------------------------------------- submodules: MaterialSub
\* registered: materials with a descriptor set; loaded: those among them
\* whose GPU upload has completed.
MaterialSub_new == [registered |-> {}, loaded |-> {}]

MaterialSub_maintain(m, events) ==
    [registered |-> m.registered \ events, loaded |-> m.loaded \ events]

\* None when the material's textures are not all ready; else the resolved id
\* and whether the material was newly registered.
MaterialSub_insert(m, ready, mat) ==
    IF mat \in ready
    THEN [some |-> TRUE, id |-> mat, changed |-> mat \notin m.registered,
          mtl |-> [m EXCEPT !.registered = @ \cup {mat}]]
    ELSE [some |-> FALSE, id |-> 0, changed |-> FALSE, mtl |-> m]

MaterialSub_loaded(m, id) == id \in m.loaded

\* ------------------------------------------------- util: ChangeDetection
\* Changed(i): something changed when slot i was prepared, and slot i has not
\* come round again since; Stable otherwise.
Stable == [stable |-> TRUE, index |-> 0]

Changed(i) == [stable |-> FALSE, index |-> i]

ChangeDetection_default == Changed(0)

ChangeDetection_can_reuse(c, i, changed) ==
    IF changed THEN [change |-> Changed(i), reuse |-> FALSE]
    ELSE IF c.stable THEN [change |-> c, reuse |-> TRUE]
    ELSE IF c.index = i THEN [change |-> Stable, reuse |-> TRUE]
    ELSE [change |-> c, reuse |-> FALSE]

ChangeDetection_prepare_result(c, i, changed) ==
    LET r == ChangeDetection_can_reuse(c, i, changed)
    IN  [change |-> r.change, result |-> IF r.reuse THEN "DrawReuse" ELSE "DrawRecord"]

\* ---------------------------------------------- submodules: SkinningSub
\* insert(joints) returns the offset of the entity's joints in the frame's
\* staging buffer, which commit uploads and empties; every JointTransforms is
\* taken to hold one matrix, so the offset is the number of inserts before it.
SkinningSub_insert_offset(n_before) == n_before

SkinningSub_commit(s, i, staged) == [s EXCEPT ![i] = staged]

\* ================================================= pass/base_3d.rs: gather
GroupKey(c, e) == [mat |-> c.materials[e], mesh |-> c.meshes[e]]

\* .map(|(((mat, mesh, tform, tint), _), _)| ((mat, mesh.id()), VertexArgs::from_object_data(..)))
StaticItems(c, es) ==
    [i \in 1..Len(es) |-> [key |-> GroupKey(c, es[i]), value |-> VertexArgs(es[i])]]

\* .map(|(mat, mesh, tform, tint, joints)| (.., SkinnedVertexArgs::from_object_data(tform, tint,
\* skinning_ref.insert(joints)))): one skinning insert per joined entity, in join order.
SkinnedItems(c, es) ==
    [i \in 1..Len(es) |->
        [key |-> GroupKey(c, es[i]),
         value |-> SkinnedVertexArgs(es[i], SkinningSub_insert_offset(i - 1))]]

\* The static join without its !&hiddens term.
OpaqueStaticNoVisibility_hidden_kept(c) ==
    Ascending({e \in Entities : /\ e \notin c.joints
                                /\ e \notin c.hiddens_prop
                                /\ e \notin c.transparent})

\* DrawBase3D::prepare, None branch: (static_input(), (!&hiddens, !&hiddens_prop, !&transparent)).join()
OpaqueStaticNoVisibility(c) ==
    Ascending({e \in Entities : /\ e \notin c.joints
                                /\ e \notin c.hiddens
                                /\ e \notin c.hiddens_prop
                                /\ e \notin c.transparent})

\* (skinned_input(), (!&hiddens, !&hiddens_prop)).join()
OpaqueSkinnedNoVisibility(c) ==
    Ascending({e \in Entities : /\ e \in c.joints
                                /\ e \notin c.hiddens
                                /\ e \notin c.hiddens_prop})

\* The markers of the None branch applied to the visible set as well.
OpaqueStaticVisible_markers_filtered(c, v) ==
    Ascending({e \in Entities : /\ e \notin c.joints
                                /\ e \in v.visible_unordered
                                /\ e \notin c.hiddens \cup c.hiddens_prop \cup c.transparent})

\* Some(visibility) branch: (static_input(), &visibility.visible_unordered).join()
OpaqueStaticVisible(c, v) ==
    Ascending({e \in Entities : e \notin c.joints /\ e \in v.visible_unordered})

\* (skinned_input(), &visibility.visible_unordered).join()
OpaqueSkinnedVisible(c, v) ==
    Ascending({e \in Entities : e \in c.joints /\ e \in v.visible_unordered})

OpaqueStaticJoin(c, v) ==
    IF v.present THEN OpaqueStaticVisible(c, v) ELSE OpaqueStaticNoVisibility(c)

OpaqueSkinnedJoin(c, v) ==
    IF v.present THEN OpaqueSkinnedVisible(c, v) ELSE OpaqueSkinnedNoVisibility(c)

\* The visible entities joined in storage order instead of visibility order.
TransparentStaticJoin_ascending(c, v) ==
    Ascending({e \in Range(v.visible_ordered) : e \notin c.joints})

\* DrawBase3DTransparent::prepare: visible_ordered.iter().filter_map(|e| joined.get_unchecked(e.id()))
\* with joined = ((&materials, &meshes, &transforms, tints.maybe()), !&joints).join()
TransparentStaticJoin(c, v) ==
    SelectSeq(v.visible_ordered, LAMBDA e : e \notin c.joints)

\* The skinned join without its &joints term.
TransparentSkinnedJoin_all(c, v) == v.visible_ordered

\* joined = (&materials, &meshes, &transforms, tints.maybe(), &joints).join()
TransparentSkinnedJoin(c, v) ==
    SelectSeq(v.visible_ordered, LAMBDA e : e \in c.joints)

\* The check left out: every mesh id passes.
MeshLoaded_unchecked(storage, mesh_id) == TRUE

\* mesh_storage.contains_id(mesh_id)
MeshLoaded(storage, mesh_id) == mesh_id \in storage

\* The skinned join gathered whether or not the pass has a skinned pipeline.
SkinnedGathered_always(with_skin, join) == join

\* if self.pipeline_skinned.is_some() { .. }: the skinned join is iterated
\* only by a pass that has the skinned pipeline.
SkinnedGathered(with_skin, join) == IF with_skin THEN join ELSE <<>>

\* changed = changed || this_changed
OrChanged(changed, this_changed) == changed \/ this_changed

\* The group inserted whether or not the material insert resolved.
OnGroup_unresolved_kept(acc, g, storage, ready, ordered) ==
    IF MeshLoaded(storage, g.key.mesh)
    THEN LET r == MaterialSub_insert(acc.mtl, ready, g.key.mat)
         IN  [mtl |-> r.mtl,
              batch |-> IF ordered
                        THEN Ordered_insert(acc.batch, g.key.mat, g.key.mesh, g.data)
                        ELSE TwoLevel_insert(acc.batch, g.key.mat, g.key.mesh, g.data),
              changed |-> OrChanged(acc.changed, r.changed),
              log |-> Append(acc.log, [some |-> r.some, changed |-> r.changed])]
    ELSE acc

\* The closure handed to for_each_group. acc: the material submodule, the
\* batch container, the changed flag (dropped by DrawBase3D: `Some((mat, _))`)
\* and the results of the material inserts made so far.
OnGroup(acc, g, storage, ready, ordered) ==
    IF MeshLoaded(storage, g.key.mesh)
    THEN LET r == MaterialSub_insert(acc.mtl, ready, g.key.mat)
             logged == Append(acc.log, [some |-> r.some, changed |-> r.changed])
         IN  IF r.some
             THEN [mtl |-> r.mtl,
                   batch |-> IF ordered
                             THEN Ordered_insert(acc.batch, r.id, g.key.mesh, g.data)
                             ELSE TwoLevel_insert(acc.batch, r.id, g.key.mesh, g.data),
                   changed |-> OrChanged(acc.changed, r.changed),
                   log |-> logged]
             ELSE [acc EXCEPT !.mtl = r.mtl, !.log = logged]
    ELSE acc

RECURSIVE ForEachGroup(_, _, _, _, _)
ForEachGroup(groups, acc, storage, ready, ordered) ==
    IF groups = <<>> THEN acc
    ELSE ForEachGroup(Tail(groups), OnGroup(acc, Head(groups), storage, ready, ordered),
                      storage, ready, ordered)

Gather(items, acc, storage, ready, ordered) ==
    ForEachGroup(Groups(items), acc, storage, ready, ordered)

\* The (material, mesh, instance count) runs of an ordered container, in order.
Ordered_runs(b) ==
    LET it == Ordered_iter(b)
    IN  Flatten([i \in 1..Len(it) |->
            [j \in 1..Len(it[i].batches) |->
                [pk |-> it[i].pk, sk |-> it[i].batches[j].sk,
                 n |-> it[i].batches[j].end - it[i].batches[j].start]]])

\* ------------------------------------------------- DrawBase3D::prepare
\* The buckets emptied with the instance count left as it was.
OpaqueCleared_count_kept(b) ==
    [map |-> [pk \in DOMAIN b.map |-> <<>>], data_count |-> b.data_count]

\* self.static_batches.clear_inner(); self.skinned_batches.clear_inner();
OpaqueCleared(b) == TwoLevel_clear_inner(b)

\* A reuse result handed back.
OpaqueResult_reuse == "DrawReuse"

\* The last expression of DrawBase3D::prepare: PrepareResult::DrawRecord
OpaqueResult == "DrawRecord"

\* The pass state after prepare(i): the fields of the pass, and `frame`, the
\* record of what this call saw.
OpaquePrepared(i, c, v, storage, ready, events, st, sk, m, order, with_skin) ==
    LET m0 == MaterialSub_maintain(m, events)
        a0 == [mtl |-> m0, batch |-> OpaqueCleared(st), changed |-> FALSE, log |-> <<>>]
        a1 == Gather(StaticItems(c, OpaqueStaticJoin(c, v)), a0, storage, ready, FALSE)
        sjoin == SkinnedGathered(with_skin, OpaqueSkinnedJoin(c, v))
        b0 == [mtl |-> a1.mtl, batch |-> OpaqueCleared(sk), changed |-> a1.changed,
               log |-> a1.log]
        b1 == Gather(SkinnedItems(c, sjoin), b0, storage, ready, FALSE)
        st1 == TwoLevel_prune(a1.batch)
        sk1 == TwoLevel_prune(b1.batch)
    IN  [static_batches |-> st1,
         skinned_batches |-> sk1,
         mtl |-> b1.mtl,
         static_count |-> TwoLevel_count(st1),
         static_data |-> TwoLevel_data(st1, order),
         skinned_count |-> TwoLevel_count(sk1),
         skinned_data |-> TwoLevel_data(sk1, order),
         staged |-> Len(sjoin),
         log |-> b1.log,
         changed |-> FALSE,
         result |-> OpaqueResult]

\* ------------------------------------------ DrawBase3DTransparent::prepare
\* The container emptied without keeping the frame's lists as the old ones.
TransparentCleared_no_swap(b) ==
    [b EXCEPT !.pk_list = <<>>, !.sk_list = <<>>, !.data_list = <<>>]

\* The lists swapped and cleared with the instance data of the frame before
\* left in the container.
TransparentCleared_data_kept(b) ==
    [old_pk_list |-> b.pk_list, old_sk_list |-> b.sk_list,
     pk_list |-> <<>>, sk_list |-> <<>>, data_list |-> b.data_list]

\* self.static_batches.swap_clear(); self.skinned_batches.swap_clear();
TransparentCleared(b) == Ordered_swap_clear(b)

\* The inserts' changed flags dropped from the disjunction.
TransparentChanged_containers_only(insert_changed, st, sk) ==
    Ordered_changed(st) \/ Ordered_changed(sk)

\* changed = changed || self.static_batches.changed(); ... skinned_batches.changed()
TransparentChanged(insert_changed, st, sk) ==
    (insert_changed \/ Ordered_changed(st)) \/ Ordered_changed(sk)

\* The helper told that nothing changed.
TransparentResult_unchanged(c, i, changed) == ChangeDetection_prepare_result(c, i, FALSE)

\* self.change.prepare_result(index, changed)
TransparentResult(c, i, changed) == ChangeDetection_prepare_result(c, i, changed)

TransparentPrepared(i, c, v, storage, ready, events, st, sk, m, ch, with_skin) ==
    LET m0 == MaterialSub_maintain(m, events)
        a0 == [mtl |-> m0, batch |-> TransparentCleared(st), changed |-> FALSE, log |-> <<>>]
        a1 == Gather(StaticItems(c, TransparentStaticJoin(c, v)), a0, storage, ready, TRUE)
        sjoin == SkinnedGathered(with_skin, TransparentSkinnedJoin(c, v))
        b0 == [mtl |-> a1.mtl, batch |-> TransparentCleared(sk), changed |-> a1.changed,
               log |-> a1.log]
        b1 == Gather(SkinnedItems(c, sjoin), b0, storage, ready, TRUE)
        changed == TransparentChanged(b1.changed, a1.batch, b1.batch)
        r == TransparentResult(ch, i, changed)
    IN  [static_batches |-> a1.batch,
         skinned_batches |-> b1.batch,
         mtl |-> b1.mtl,
         static_count |-> Ordered_count(a1.batch),
         static_data |-> Ordered_data(a1.batch),
         skinned_count |-> Ordered_count(b1.batch),
         skinned_data |-> Ordered_data(b1.batch),
         staged |-> Len(sjoin),
         log |-> b1.log,
         changed |-> changed,
         change |-> r.change,
         result |-> r.result]

\* ======================================================= pass/pbm.rs
Min(a, b) == IF a <= b THEN a ELSE b

\* The mesh looked for among all the batches of the material.
insert_batch_all_scanned(md, mat_id, mesh_id, instance_data) ==
    IF mat_id \in DOMAIN md
    THEN LET bs == md[mat_id].batches
             hit == {i \in 1..Len(bs) : bs[i].mesh_id = mesh_id}
             new == IF hit # {}
                    THEN LET i == CHOOSE j \in hit : \A k \in hit : j <= k
                         IN  [bs EXCEPT ![i].models = @ \o instance_data]
                    ELSE Append(bs, [mesh_id |-> mesh_id, models |-> instance_data])
         IN  [md EXCEPT ![mat_id].batches = new]
    ELSE [k \in DOMAIN md \cup {mat_id} |->
             IF k = mat_id
             THEN [batches |-> <<[mesh_id |-> mesh_id, models |-> instance_data]>>,
                   desc_set |-> <<>>]
             ELSE md[k]]

\* DrawPbm::insert_batch
insert_batch(md, mat_id, mesh_id, instance_data) ==
    IF mat_id \in DOMAIN md
    THEN LET bs == md[mat_id].batches
             hit == {i \in 1..Min(Len(bs), ScanLimit) : bs[i].mesh_id = mesh_id}
             new == IF hit # {}
                    THEN LET i == CHOOSE j \in hit : \A k \in hit : j <= k
                         IN  [bs EXCEPT ![i].models = @ \o instance_data]
                    ELSE Append(bs, [mesh_id |-> mesh_id, models |-> instance_data])
         IN  [md EXCEPT ![mat_id].batches = new]
    ELSE [k \in DOMAIN md \cup {mat_id} |->
             IF k = mat_id
             THEN [batches |-> <<[mesh_id |-> mesh_id, models |-> instance_data]>>,
                   desc_set |-> <<>>]
             ELSE md[k]]

\* Option: None is the empty sequence, Some(x) the sequence of x alone.
None == <<>>

Some(x) == <<x>>

\* The size of the array, not rounded.
align_size_unrounded(align, elem_size, array_len) == elem_size * array_len

\* fn align_size<T>(align, array_len): size_of::<T::Std140>() is elem_size.
align_size(align, elem_size, array_len) ==
    LET size == elem_size * array_len
    IN  ((size + align - 1) \div align) * align

\* u64::next_power_of_two: the smallest power of two that is >= n (1 for 0).
RECURSIVE PowerOfTwoFrom(_, _)
PowerOfTwoFrom(p, n) == IF p >= n THEN p ELSE PowerOfTwoFrom(2 * p, n)

next_power_of_two(n) == PowerOfTwoFrom(1, n)

\* The buffer created with min_size bytes exactly.
ensure_buffer_exact(buffer, min_size) ==
    IF (IF buffer = <<>> THEN 0 ELSE buffer[1]) < min_size
    THEN [buffer |-> <<min_size>>, replaced |-> TRUE]
    ELSE [buffer |-> buffer, replaced |-> FALSE]

\* fn ensure_buffer, when create_buffer succeeds: a buffer is its size in
\* bytes; `replaced` is the bool returned.
ensure_buffer(buffer, min_size) ==
    IF (IF buffer = None THEN 0 ELSE buffer[1]) < min_size
    THEN [buffer |-> Some(next_power_of_two(min_size)), replaced |-> TRUE]
    ELSE [buffer |-> buffer, replaced |-> FALSE]

\* PerImage::new()
PerImage_new ==
    [environment_buffer |-> None, models_buffer |-> None, material_buffer |-> None,
     environment_set |-> None, objects_set |-> None]

\* while self.per_image.len() <= index { self.per_image.push(PerImage::new()); }
\* per_image[i + 1] is the PerImage of frame slot i.
PerImageGrown(images, i) ==
    [j \in 1..Max({Len(images), i + 1}) |->
        IF j <= Len(images) THEN images[j] ELSE PerImage_new]

ByteRange(start, end) == [start |-> start, end |-> end]

\* env_range, plight_range, dlight_range, slight_range, projview_range
EnvRanges(align, sz) ==
    LET env_buf_size == align_size(align, sz.Environment, 1)
        plight_buf_size == align_size(align, sz.PointLight, MAX_POINT_LIGHTS)
        dlight_buf_size == align_size(align, sz.DirectionalLight, MAX_DIR_LIGHTS)
        slight_buf_size == align_size(align, sz.SpotLight, MAX_SPOT_LIGHTS)
        projview_size == align_size(align, sz.Projview, 1)
        env_range == ByteRange(0, env_buf_size)
        plight_range == ByteRange(env_range.end, env_range.end + plight_buf_size)
        dlight_range == ByteRange(plight_range.end, plight_range.end + dlight_buf_size)
        slight_range == ByteRange(dlight_range.end, dlight_range.end + slight_buf_size)
        projview_range == ByteRange(slight_range.end, slight_range.end + projview_size)
    IN  [env |-> env_range, plight |-> plight_range, dlight |-> dlight_range,
         slight |-> slight_range, projview |-> projview_range]

\* .take(MAX_POINT_LIGHTS), .take(MAX_DIR_LIGHTS), .take(MAX_SPOT_LIGHTS): the
\* lights collected for the upload.
LightsTaken(lts) ==
    [point |-> Min(lts.point, MAX_POINT_LIGHTS), dir |-> Min(lts.dir, MAX_DIR_LIGHTS),
     spot |-> Min(lts.spot, MAX_SPOT_LIGHTS)]

\* The min_size handed to ensure_buffer for the environment buffer:
\* slight_range.end.unwrap()
EnvMinSize(ranges) == ranges.slight.end

\* "Prepare lights": the environment buffer of this_image is ensured and,
\* when it was replaced, the two sets are created if absent and written with
\* the five ranges.
EnvEnsured(image, ranges) ==
    LET r == ensure_buffer(image.environment_buffer, EnvMinSize(ranges))
    IN  [image |-> IF r.replaced
                   THEN [image EXCEPT
                            !.environment_buffer = r.buffer,
                            !.environment_set =
                                Some([env |-> ranges.env, plight |-> ranges.plight,
                                      dlight |-> ranges.dlight, slight |-> ranges.slight]),
                            !.objects_set = Some([projview |-> ranges.projview])]
                   ELSE image,
         replaced |-> r.replaced]

\* The upload_visible_buffer calls on the environment buffer: the bytes
\* [start, end) written by each; taken gives the number of lights of each kind uploaded.
EnvUploads(ranges, sz, taken) ==
    {ByteRange(ranges.env.start, ranges.env.start + sz.Environment)}
    \cup (IF taken.point > 0
          THEN {ByteRange(ranges.plight.start,
                      ranges.plight.start + taken.point * sz.PointLight)}
          ELSE {})
    \cup (IF taken.dir > 0
          THEN {ByteRange(ranges.dlight.start,
                      ranges.dlight.start + taken.dir * sz.DirectionalLight)}
          ELSE {})
    \cup (IF taken.spot > 0
          THEN {ByteRange(ranges.slight.start,
                      ranges.slight.start + taken.spot * sz.SpotLight)}
          ELSE {})
    \cup {ByteRange(ranges.projview.start, ranges.projview.start + sz.Projview)}

\* What prepare(i) does to per_image: the PerImage of the slot comes into
\* being, its three buffers are ensured. `ensured` and `replaced` record the
\* min_size and the result of each ensure_buffer call, `uploads` the ranges
\* written into the environment buffer.
PbmImagePrepared(images, i, align, sz, taken, num_materials, num_models) ==
    LET grown == PerImageGrown(images, i)
        ranges == EnvRanges(align, sz)
        e == EnvEnsured(grown[i + 1], ranges)
        material_min == num_materials * align_size(align, sz.Material, 1)
        models_min == num_models * sz.Transform
        mat == ensure_buffer(e.image.material_buffer, material_min)
        mod == ensure_buffer(e.image.models_buffer, models_min)
        this_image == [e.image EXCEPT !.material_buffer = mat.buffer,
                                      !.models_buffer = mod.buffer]
    IN  [per_image |-> [grown EXCEPT ![i + 1] = this_image],
         uploads |-> EnvUploads(ranges, sz, taken),
         ensured |-> [environment |-> EnvMinSize(ranges), material |-> material_min,
                      models |-> models_min],
         replaced |-> [environment |-> e.replaced, material |-> mat.replaced,
                       models |-> mod.replaced]]

\* joinable = (&entities, &materials, &meshes, &global_transforms, !&hiddens)
PbmJoin(c) == Ascending({e \in Entities : e \notin c.hiddens})

NoBlock == [some |-> FALSE, mat_id |-> 0, mesh_id |-> 0, transforms |-> <<>>]

\* A block that ends is handed to insert_batch when its mesh is loaded, and dropped otherwise.
PbmFlush(md, block, storage) ==
    IF block.some /\ MeshLoaded(storage, block.mesh_id)
    THEN insert_batch(md, block.mat_id, block.mesh_id, block.transforms)
    ELSE md

\* One turn of `for (entity, material, mesh, transform, _) in joinable.join()`:
\* match &mut block { None => .., Some(..) if same material and mesh => ..,
\* Some(..) => .. }. The block and the materials_data after it.
PbmLoopBody(md, block, storage, e, next_mat_id, next_mesh_id) ==
    LET fresh == [some |-> TRUE, mat_id |-> next_mat_id, mesh_id |-> next_mesh_id,
                  transforms |-> <<Transform(e)>>]
    IN  IF ~block.some
        THEN [block |-> fresh, md |-> md]
        ELSE IF block.mat_id = next_mat_id /\ block.mesh_id = next_mesh_id
        THEN [block |-> [block EXCEPT !.transforms = Append(@, Transform(e))], md |-> md]
        ELSE [block |-> fresh, md |-> PbmFlush(md, block, storage)]

\* for (entity, material, mesh, transform, _) in joinable.join() { match &mut block .. }
\* and the `if let Some(..) = block.take()` that follows the loop.
RECURSIVE PbmScan(_, _, _, _, _)
PbmScan(es, c, storage, block, md) ==
    IF es = <<>> THEN PbmFlush(md, block, storage)
    ELSE LET e == Head(es)
             r == PbmLoopBody(md, block, storage, e, c.materials[e], c.meshes[e])
         IN  PbmScan(Tail(es), c, storage, r.block, r.md)

PbmIter(md, order) ==
    LET keys == SelectSeq(order, LAMBDA k : k \in DOMAIN md)
    IN  [i \in 1..Len(keys) |-> [mat_id |-> keys[i], batches |-> md[keys[i]].batches]]

\* At most one descriptor set pushed, whatever the index.
DescSetsWritten_one_pushed(desc_set, i) ==
    IF Len(desc_set) <= i THEN Append(desc_set, "written")
    ELSE [desc_set EXCEPT ![i + 1] = "written"]

\* while mat.desc_set.len() <= index { mat.desc_set.push(create_descriptor_set(..)) }
\* and, in the loop over the materials, write_descriptor_sets on desc_set[index].
\* desc_set[j + 1] is the set of frame slot j.
DescSetsWritten(desc_set, i) ==
    [j \in 1..Max({Len(desc_set), i + 1}) |->
        IF j = i + 1 THEN "written"
        ELSE IF j <= Len(desc_set) THEN desc_set[j] ELSE "unwritten"]

\* The batches of the frame before left in place.
PbmCleared_batches_kept(md) == md

\* for (_, data) in self.materials_data.iter_mut() { data.batches.clear(); }
PbmCleared(md) == [k \in DOMAIN md |-> [md[k] EXCEPT !.batches = <<>>]]

\* Every material kept, with or without batches.
PbmRetained_all(md) == md

\* self.materials_data.retain(|_, data| data.batches.len() > 0);
PbmRetained(md) == [k \in {x \in DOMAIN md : Len(md[x].batches) > 0} |-> md[k]]

\* The models of the first batch of every material only.
PbmModels_first_batches(md, order) ==
    LET keys == SelectSeq(order, LAMBDA k : k \in DOMAIN md)
    IN  Flatten([a \in 1..Len(keys) |-> md[keys[a]].batches[1].models])

\* models.extend(self.materials_data.iter().flat_map(|(_, mat)|
\*     mat.batches.iter().flat_map(|b| &b.models)))
PbmModels(md, order) ==
    LET it == PbmIter(md, order)
    IN  Flatten([a \in 1..Len(it) |->
            Flatten([b \in 1..Len(it[a].batches) |-> it[a].batches[b].models])])

\* DrawPbm::prepare after the gathering: retain, the models in iteration
\* order, the descriptor sets of slot i.
PbmFinished(i, scanned, order, images, align, sz, lts) ==
    LET kept == PbmRetained(scanned)
        all_models == PbmModels(kept, order)
        with_sets == [k \in DOMAIN kept |->
                         [kept[k] EXCEPT !.desc_set = DescSetsWritten(@, i)]]
    IN  [materials_data |-> with_sets, models |-> all_models, result |-> "DrawRecord",
         image |-> PbmImagePrepared(images, i, align, sz, LightsTaken(lts),
                                    Cardinality(DOMAIN kept), Len(all_models))]

\* DrawPbm::prepare, from `for (_, data) in self.materials_data.iter_mut()` on.
PbmPrepared(i, c, storage, md, order, images, align, sz, lts) ==
    PbmFinished(i, PbmScan(PbmJoin(c), c, storage, NoBlock, PbmCleared(md)), order,
                images, align, sz, lts)

\* The locals of the gathering while no prepare is under way.
NoScan == [block |-> NoBlock, joined |-> 0, rest |-> 0]

\* ============================================================= draw
Cmd(op, pipeline, set, mat, mesh, start, end) ==
    [op |-> op, pipeline |-> pipeline, set |-> set, mat |-> mat, mesh |-> mesh,
     start |-> start, end |-> end]

RECURSIVE RunsLen(_)
RunsLen(batches) ==
    IF batches = <<>> THEN 0 ELSE Len(Head(batches).data) + RunsLen(Tail(batches))

\* Every run drawn from index 0, the running offset ignored.
OpaqueDrawRuns_from_zero(batches, pipeline, mat_id, instances_drawn) ==
    [j \in 1..Len(batches) |->
        Cmd("draw", pipeline, 0, mat_id, batches[j].sk, 0, Len(batches[j].data))]

\* DrawBase3D::draw_inline: `for (mesh_id, batch_data) in batches`
RECURSIVE OpaqueDrawRuns(_, _, _, _)
OpaqueDrawRuns(batches, pipeline, mat_id, instances_drawn) ==
    IF batches = <<>> THEN <<>>
    ELSE LET n == Len(Head(batches).data)
         IN  <<Cmd("draw", pipeline, 0, mat_id, Head(batches).sk,
                   instances_drawn, instances_drawn + n)>>
             \o OpaqueDrawRuns(Tail(batches), pipeline, mat_id, instances_drawn + n)

\* The descriptor set of every bucket bound, loaded or not.
OpaqueDrawBuckets_all_bound(buckets, pipeline, m, instances_drawn) ==
    [k \in 1..Len(buckets) |-> Cmd("bind_material", pipeline, 1, buckets[k].pk, 0, 0, 0)]

\* `for (&mat_id, batches) in self.static_batches.iter()`: instances_drawn is
\* advanced inside `if self.materials.loaded(mat_id)` only.
RECURSIVE OpaqueDrawBuckets(_, _, _, _)
OpaqueDrawBuckets(buckets, pipeline, m, instances_drawn) ==
    IF buckets = <<>> THEN <<>>
    ELSE LET b == Head(buckets)
         IN  IF MaterialSub_loaded(m, b.pk)
             THEN <<Cmd("bind_material", pipeline, 1, b.pk, 0, 0, 0)>>
                  \o OpaqueDrawRuns(b.batches, pipeline, b.pk, instances_drawn)
                  \o OpaqueDrawBuckets(Tail(buckets), pipeline, m,
                                       instances_drawn + RunsLen(b.batches))
             ELSE OpaqueDrawBuckets(Tail(buckets), pipeline, m, instances_drawn)

\* The skinning set bound before the skinned instance buffer is asked for data.
OpaqueDrawn_skinning_bound_early(i, st, sk, mo, smo, m, order, with_skin) ==
    <<Cmd("bind_graphics_pipeline", "basic", 0, 0, 0, 0, 0),
      Cmd("bind_environment", "basic", 0, 0, 0, 0, 0)>>
    \o (IF DynamicVertex_bind(mo, i)
        THEN <<Cmd("bind_instances", "basic", 0, 0, 0, 0, 0)>>
             \o OpaqueDrawBuckets(TwoLevel_iter(st, order), "basic", m, 0)
        ELSE <<>>)
    \o (IF with_skin
        THEN <<Cmd("bind_graphics_pipeline", "skinned", 0, 0, 0, 0, 0),
               Cmd("bind_skinning", "skinned", 2, 0, 0, 0, 0)>>
             \o (IF DynamicVertex_bind(smo, i)
                 THEN <<Cmd("bind_instances", "skinned", 0, 0, 0, 0, 0)>>
                      \o OpaqueDrawBuckets(TwoLevel_iter(sk, order), "skinned", m, 0)
                 ELSE <<>>)
        ELSE <<>>)

\* DrawBase3D::draw_inline
OpaqueDrawn(i, st, sk, mo, smo, m, order, with_skin) ==
    <<Cmd("bind_graphics_pipeline", "basic", 0, 0, 0, 0, 0),
      Cmd("bind_environment", "basic", 0, 0, 0, 0, 0)>>
    \o (IF DynamicVertex_bind(mo, i)
        THEN <<Cmd("bind_instances", "basic", 0, 0, 0, 0, 0)>>
             \o OpaqueDrawBuckets(TwoLevel_iter(st, order), "basic", m, 0)
        ELSE <<>>)
    \o (IF with_skin
        THEN <<Cmd("bind_graphics_pipeline", "skinned", 0, 0, 0, 0, 0)>>
             \o (IF DynamicVertex_bind(smo, i)
                 THEN <<Cmd("bind_instances", "skinned", 0, 0, 0, 0, 0),
                        Cmd("bind_skinning", "skinned", 2, 0, 0, 0, 0)>>
                      \o OpaqueDrawBuckets(TwoLevel_iter(sk, order), "skinned", m, 0)
                 ELSE <<>>)
        ELSE <<>>)

\* DrawBase3DTransparent::draw_inline: `for (mesh, range) in batches`
\* The runs of a bucket drawn last to first.
TransparentDrawRuns_reversed(batches, pipeline, mat) ==
    [j \in 1..Len(batches) |->
        Cmd("draw", pipeline, 0, mat, batches[Len(batches) + 1 - j].sk,
            batches[Len(batches) + 1 - j].start, batches[Len(batches) + 1 - j].end)]

TransparentDrawRuns(batches, pipeline, mat) ==
    [j \in 1..Len(batches) |->
        Cmd("draw", pipeline, 0, mat, batches[j].sk, batches[j].start, batches[j].end)]

RECURSIVE TransparentDrawBuckets(_, _, _)
TransparentDrawBuckets(buckets, pipeline, m) ==
    IF buckets = <<>> THEN <<>>
    ELSE LET b == Head(buckets)
         IN  (IF MaterialSub_loaded(m, b.pk)
              THEN <<Cmd("bind_material", pipeline, 1, b.pk, 0, 0, 0)>>
                   \o TransparentDrawRuns(b.batches, pipeline, b.pk)
              ELSE <<>>)
             \o TransparentDrawBuckets(Tail(buckets), pipeline, m)

\* The skinning set bound once at the start, with the environment set.
TransparentDrawn_skinning_first(i, st, sk, mo, smo, m, with_skin) ==
    <<Cmd("bind_graphics_pipeline", "basic", 0, 0, 0, 0, 0),
      Cmd("bind_environment", "basic", 0, 0, 0, 0, 0),
      Cmd("bind_skinning", "skinned", 2, 0, 0, 0, 0)>>
    \o (IF DynamicVertex_bind(mo, i)
        THEN <<Cmd("bind_instances", "basic", 0, 0, 0, 0, 0)>>
             \o TransparentDrawBuckets(Ordered_iter(st), "basic", m)
        ELSE <<>>)
    \o (IF with_skin
        THEN <<Cmd("bind_graphics_pipeline", "skinned", 0, 0, 0, 0, 0)>>
             \o (IF DynamicVertex_bind(smo, i)
                 THEN <<Cmd("bind_instances", "skinned", 0, 0, 0, 0, 0)>>
                      \o TransparentDrawBuckets(Ordered_iter(sk), "skinned", m)
                 ELSE <<>>)
        ELSE <<>>)

\* The skinned pipeline bound whether or not the pass has one.
TransparentDrawn_skinned_bound(i, st, sk, mo, smo, m, with_skin) ==
    <<Cmd("bind_graphics_pipeline", "basic", 0, 0, 0, 0, 0),
      Cmd("bind_environment", "basic", 0, 0, 0, 0, 0)>>
    \o (IF DynamicVertex_bind(mo, i)
        THEN <<Cmd("bind_instances", "basic", 0, 0, 0, 0, 0)>>
             \o TransparentDrawBuckets(Ordered_iter(st), "basic", m)
        ELSE <<>>)
    \o <<Cmd("bind_graphics_pipeline", "skinned", 0, 0, 0, 0, 0)>>

\* DrawBase3DTransparent::draw_inline
TransparentDrawn(i, st, sk, mo, smo, m, with_skin) ==
    <<Cmd("bind_graphics_pipeline", "basic", 0, 0, 0, 0, 0),
      Cmd("bind_environment", "basic", 0, 0, 0, 0, 0)>>
    \o (IF DynamicVertex_bind(mo, i)
        THEN <<Cmd("bind_instances", "basic", 0, 0, 0, 0, 0)>>
             \o TransparentDrawBuckets(Ordered_iter(st), "basic", m)
        ELSE <<>>)
    \o (IF with_skin
        THEN <<Cmd("bind_graphics_pipeline", "skinned", 0, 0, 0, 0, 0)>>
             \o (IF DynamicVertex_bind(smo, i)
                 THEN <<Cmd("bind_instances", "skinned", 0, 0, 0, 0, 0),
                        Cmd("bind_skinning", "skinned", 2, 0, 0, 0, 0)>>
                      \o TransparentDrawBuckets(Ordered_iter(sk), "skinned", m)
                 ELSE <<>>)
        ELSE <<>>)

\* Every batch bound at the offset its material starts at.
PbmDrawBatches_offset_kept(batches, mat_id, instances_drawn) ==
    [j \in 1..Len(batches) |->
        Cmd("draw", "pbm", 0, mat_id, batches[j].mesh_id,
            instances_drawn, instances_drawn + Len(batches[j].models))]

\* DrawPbm::draw: `for batch in &material.batches`
RECURSIVE PbmDrawBatches(_, _, _)
PbmDrawBatches(batches, mat_id, instances_drawn) ==
    IF batches = <<>> THEN <<>>
    ELSE LET n == Len(Head(batches).models)
         IN  <<Cmd("draw", "pbm", 0, mat_id, Head(batches).mesh_id,
                   instances_drawn, instances_drawn + n)>>
             \o PbmDrawBatches(Tail(batches), mat_id, instances_drawn + n)

RECURSIVE PbmModelsLen(_)
PbmModelsLen(batches) ==
    IF batches = <<>> THEN 0 ELSE Len(Head(batches).models) + PbmModelsLen(Tail(batches))

RECURSIVE PbmDrawMaterials(_, _)
PbmDrawMaterials(mats, instances_drawn) ==
    IF mats = <<>> THEN <<>>
    ELSE <<Cmd("bind_material", "pbm", 1, Head(mats).mat_id, 0, 0, 0)>>
         \o PbmDrawBatches(Head(mats).batches, Head(mats).mat_id, instances_drawn)
         \o PbmDrawMaterials(Tail(mats), instances_drawn + PbmModelsLen(Head(mats).batches))

\* The places where DrawPbm::draw panics: self.per_image[index] out of bounds,
\* and, once objects_set is there, environment_set.as_ref().unwrap() on None,
\* material.desc_set[index] out of bounds, models_buffer.as_ref().unwrap() on
\* None for a batch.
PbmDrawPanics(images, md, i) ==
    \/ Len(images) <= i
    \/ /\ images[i + 1].objects_set # None
       /\ \/ images[i + 1].environment_set = None
          \/ \E k \in DOMAIN md :
                \/ Len(md[k].desc_set) <= i
                \/ md[k].batches # <<>> /\ images[i + 1].models_buffer = None

\* DrawPbm::draw(index) when it does not panic: nothing is recorded while
\* this_image.objects_set is None.
PbmDrawn(images, i, md, order) ==
    IF images[i + 1].objects_set = None THEN <<>>
    ELSE <<Cmd("bind_environment", "pbm", 2, 0, 0, 0, 0),
           Cmd("bind_objects", "pbm", 0, 0, 0, 0, 0)>>
         \o PbmDrawMaterials(PbmIter(md, order), 0)

\* ============================================================ the world
Keyings == {f \in [Entities -> Materials] : Canonical(f)}

\* The component storages a pass reads; the markers it never fetches are left empty.
Worlds(joint_sets, hidden_sets, prop_sets, transparent_sets) ==
    [materials : Keyings, meshes : Keyings, joints : joint_sets, hiddens : hidden_sets,
     hiddens_prop : prop_sets, transparent : transparent_sets]

\* Worlds in which an entity carries at most one of the three markers.
OneMarker(w) ==
    /\ w.hiddens \cap w.hiddens_prop = {}
    /\ w.hiddens \cap w.transparent = {}
    /\ w.hiddens_prop \cap w.transparent = {}

Visible(unordered, ordered) ==
    [present |-> TRUE, visible_unordered |-> unordered, visible_ordered |-> ordered]

\* The Visibility resources a pass may find: DrawBase3D reads visible_unordered,
\* DrawBase3DTransparent visible_ordered, DrawPbm none.
Visibilities(p) ==
    IF p = "opaque" THEN {NoVisibility} \cup {Visible(u, <<>>) : u \in SUBSET Entities}
    ELSE IF p = "transparent"
    THEN {NoVisibility} \cup {Visible({}, o) : o \in InjSeqs(Entities)}
    ELSE {NoVisibility}

\* No ensure_buffer call made.
NoEnsured == <<>>

NoFrame ==
    [mesh_storage |-> {}, visibility |-> NoVisibility, log |-> <<>>, changed |-> FALSE,
     staged |-> 0, prev_static |-> <<>>, prev_skinned |-> <<>>, uploaded |-> <<>>,
     env_uploads |-> {}, ensured |-> NoEnsured, replaced |-> NoEnsured]

\* ------------------------------------------------------ build and dispose
Ev(op, res) == [op |-> op, res |-> res]

\* The calls of a build that can fail; "none": all succeed. "submodule" is one
\* of EnvironmentSub::new, MaterialSub::new, SkinningSub::new.
BuildFailures ==
    {"none", "submodule", "layout", "shader_vertex_basic", "shader_fragment",
     "shader_vertex_skinned", "pipelines"}

\* PipelinesBuilder::build(factory, None): all the pipelines or an error. The
\* attempt is logged in both cases.
PipelinesBuilder_build(log, fail, names) ==
    IF fail = "pipelines"
    THEN [log |-> Append(log, Ev("build", "pipelines")), result |-> "err"]
    ELSE [log |-> Append(log, Ev("build", "pipelines"))
                  \o [k \in 1..Len(names) |-> Ev("create", names[k])],
          result |-> "ok"]

\* The skinned vertex shader module left alive after the build.
SkinnedPipelinesBuilt_module_kept(log, fail) ==
    IF fail = "shader_vertex_skinned" THEN [log |-> log, result |-> "panic"]
    ELSE PipelinesBuilder_build(Append(log, Ev("create", "shader_vertex_skinned")), fail,
                                <<"pipeline_basic", "pipeline_skinned">>)

\* build_pipelines, `if skinning { .. }`: the skinned vertex shader module is
\* created (unwrap panics on failure), the two pipelines are built and the
\* module is destroyed.
SkinnedPipelinesBuilt(log, fail) ==
    IF fail = "shader_vertex_skinned" THEN [log |-> log, result |-> "panic"]
    ELSE LET p == PipelinesBuilder_build(Append(log, Ev("create", "shader_vertex_skinned")),
                                         fail, <<"pipeline_basic", "pipeline_skinned">>)
         IN  [log |-> Append(p.log, Ev("destroy", "shader_vertex_skinned")),
              result |-> p.result]

\* build_pipelines, `else { .. }`
BasicPipelineBuilt(log, fail) == PipelinesBuilder_build(log, fail, <<"pipeline_basic">>)

\* factory.destroy_shader_module(shader_vertex_basic); ..(shader_fragment);
ShadersDestroyed(log) ==
    log \o <<Ev("destroy", "shader_vertex_basic"), Ev("destroy", "shader_fragment")>>

\* The error handed on with the layout left alive.
PipelinesMatched_layout_kept(log, result) == [log |-> log, result |-> result]

\* match pipelines { Err(e) => { destroy_pipeline_layout; Err(e) } Ok(..) => Ok(..) }
PipelinesMatched(log, result) ==
    IF result = "err"
    THEN [log |-> Append(log, Ev("destroy", "pipeline_layout")), result |-> "err"]
    ELSE [log |-> log, result |-> "ok"]

\* fn build_pipelines: the device calls it makes and how it ends: "ok", "err"
\* (returns Err) or "panic" (an unwrap of a shader module fails).
build_pipelines(with_skin, fail) ==
    IF fail = "layout" THEN [log |-> <<>>, result |-> "err"]
    ELSE IF fail = "shader_vertex_basic"
    THEN [log |-> <<Ev("create", "pipeline_layout")>>, result |-> "panic"]
    ELSE IF fail = "shader_fragment"
    THEN [log |-> <<Ev("create", "pipeline_layout"), Ev("create", "shader_vertex_basic")>>,
          result |-> "panic"]
    ELSE LET log3 == <<Ev("create", "pipeline_layout"), Ev("create", "shader_vertex_basic"),
                       Ev("create", "shader_fragment")>>
             pipelines == IF with_skin THEN SkinnedPipelinesBuilt(log3, fail)
                          ELSE BasicPipelineBuilt(log3, fail)
         IN  IF pipelines.result = "panic" THEN pipelines
             ELSE PipelinesMatched(ShadersDestroyed(pipelines.log), pipelines.result)

\* DrawBase3DDesc::build up to the construction of the pass.
DrawBase3DDesc_built(with_skin, fail) ==
    IF fail = "submodule" THEN [log |-> <<>>, result |-> "err"]
    ELSE build_pipelines(with_skin, fail)

\* DrawBase3DTransparentDesc::build up to the construction of the pass.
DrawBase3DTransparentDesc_built(with_skin, fail) ==
    IF fail = "submodule" THEN [log |-> <<>>, result |-> "err"]
    ELSE build_pipelines(with_skin, fail)

\* The pipeline fields while no pass is built.
NoPipelines == <<>>

\* PipelineDescBuilder::new()...with_layout(&pipeline_layout)...: the
\* description of the basic pipeline.
pipe_desc ==
    [parent |-> None, layout |-> "pipeline_layout", vertex |-> "shader_vertex_basic",
     fragment |-> "shader_fragment"]

\* The descriptions handed to PipelinesBuilder: with_pipeline(pipe_desc) and,
\* with skinning, with_child_pipeline(0, pipe_desc.with_vertex_desc(..)
\* .with_shaders(..)), the child of the description at index 0.
PipelinesDescribed(with_skin) ==
    IF with_skin
    THEN <<pipe_desc, [pipe_desc EXCEPT !.parent = Some(0), !.vertex = "shader_vertex_skinned"]>>
    ELSE <<pipe_desc>>

\* PipelinesBuilder::build on success: one pipeline per description, in the
\* order of the descriptions; a child is derived from the pipeline built at
\* its parent index.
PipelinesBuilder_pipelines(descs) ==
    [k \in 1..Len(descs) |->
        [id |-> k - 1, parent |-> descs[k].parent, layout |-> descs[k].layout,
         vertex |-> descs[k].vertex]]

\* The last pipeline stored as pipeline_skinned without being taken off.
PipelinesStored_last_kept(pipelines, layout) ==
    [pipeline_basic |-> Head(pipelines),
     pipeline_skinned |-> <<pipelines[Len(pipelines)]>>,
     pipeline_layout |-> layout]

\* pipeline_basic: pipelines.remove(0), pipeline_skinned: pipelines.pop(),
\* pipeline_layout
PipelinesStored(pipelines, layout) ==
    LET rest == Tail(pipelines)
    IN  [pipeline_basic |-> Head(pipelines),
         pipeline_skinned |-> IF rest = <<>> THEN None ELSE Some(rest[Len(rest)]),
         pipeline_layout |-> layout]

\* The pipeline fields of a pass whose build succeeded.
PipelinesOfBuilt(with_skin) ==
    PipelinesStored(PipelinesBuilder_pipelines(PipelinesDescribed(with_skin)),
                    "pipeline_layout")

\* The layout destroyed before the pipelines.
DrawBase3D_disposed_layout_first(log, skinned) ==
    log \o <<Ev("destroy", "pipeline_layout"), Ev("destroy", "pipeline_basic")>>
        \o (IF skinned THEN <<Ev("destroy", "pipeline_skinned")>> ELSE <<>>)

\* DrawBase3D::dispose
DrawBase3D_disposed(log, skinned) ==
    log \o <<Ev("destroy", "pipeline_basic")>>
        \o (IF skinned THEN <<Ev("destroy", "pipeline_skinned")>> ELSE <<>>)
        \o <<Ev("destroy", "pipeline_layout")>>

\* DrawBase3DTransparent::dispose
DrawBase3DTransparent_disposed(log, skinned) ==
    log \o <<Ev("destroy", "pipeline_basic")>>
        \o (IF skinned THEN <<Ev("destroy", "pipeline_skinned")>> ELSE <<>>)
        \o <<Ev("destroy", "pipeline_layout")>>

\* The sizes in bytes of the std140 forms of the pod types and of Transform.
Std140Sizes ==
    [Environment |-> 48, PointLight |-> 32, DirectionalLight |-> 32, SpotLight |-> 64,
     Projview |-> 128, Material |-> 48, Transform |-> 64]

\* The number of lights of each kind among the entities.
LightsOf(point, dir, spot) == [point |-> point, dir |-> dir, spot |-> spot]

\* A device of alignment 256 and a world without lights.
DefaultDevice ==
    /\ ubo_offset_align = 256
    /\ size_of = Std140Sizes
    /\ lights = LightsOf(0, 0, 0)

\* The fields of the pass as build fills them in.
Fresh ==
    /\ index = 0
    /\ calls = <<>>
    /\ static_batches = IF pass = "transparent" THEN Ordered_new ELSE TwoLevel_new
    /\ skinned_batches = IF pass = "transparent" THEN Ordered_new ELSE TwoLevel_new
    /\ models = DynamicVertex_new
    /\ skinned_models = DynamicVertex_new
    /\ mtl = MaterialSub_new
    /\ skinning = [i \in Slots |-> 0]
    /\ change = ChangeDetection_default
    /\ frame = NoFrame
    /\ env = {}
    /\ encoder = <<>>
    /\ materials_data = <<>>

\* Ok(Box::new(DrawBase3D { .. })): the pass comes into being with these fields.
Constructed ==
    /\ index' = 0
    /\ calls' = <<>>
    /\ static_batches' = IF pass = "transparent" THEN Ordered_new ELSE TwoLevel_new
    /\ skinned_batches' = IF pass = "transparent" THEN Ordered_new ELSE TwoLevel_new
    /\ models' = DynamicVertex_new
    /\ skinned_models' = DynamicVertex_new
    /\ mtl' = MaterialSub_new
    /\ skinning' = [i \in Slots |-> 0]
    /\ change' = ChangeDetection_default
    /\ frame' = NoFrame
    /\ env' = {}
    /\ encoder' = <<>>
    /\ materials_data' = <<>>

\* The pass as a successful build returns it. (The build of DrawPbm is not
\* followed: no device calls are recorded for it.)
Built ==
    /\ phase = "idle"
    /\ device = (IF pass = "opaque" THEN DrawBase3DDesc_built(pipeline_skinned, "none").log
                 ELSE IF pass = "transparent"
                 THEN DrawBase3DTransparentDesc_built(pipeline_skinned, "none").log
                 ELSE <<>>)
    /\ pass_pipelines = (IF pass = "pbm" THEN NoPipelines
                         ELSE PipelinesOfBuilt(pipeline_skinned))
    /\ scan = NoScan
    /\ per_image = <<>>
    /\ Fresh

\* ============================================================== actions
World == <<pass, pipeline_skinned, ecs, hash_order, slots, run_frames, ubo_offset_align,
           size_of, lights>>

Fixed == <<World, device, pass_pipelines, scan, per_image>>

PassState == <<index, calls, static_batches, skinned_batches, models, skinned_models,
               mtl, skinning, change, frame, env, encoder, materials_data>>

BuildEnded(result) ==
    IF result = "ok" THEN "idle" ELSE IF result = "err" THEN "failed" ELSE "panicked"

\* DrawBase3DDesc::build: Ok(pass), Err, or a panic inside build_pipelines.
DrawBase3DDesc_build ==
    /\ pass = "opaque"
    /\ phase = "unbuilt"
    /\ UNCHANGED <<World, scan, per_image, mesh_storage, tex_ready, mat_events, visibility>>
    /\ \E fail \in BuildFailures :
        LET r == DrawBase3DDesc_built(pipeline_skinned, fail)
        IN  /\ device' = r.log
            /\ phase' = BuildEnded(r.result)
            /\ pass_pipelines' = (IF r.result = "ok" THEN PipelinesOfBuilt(pipeline_skinned)
                                  ELSE pass_pipelines)
            /\ IF r.result = "ok" THEN Constructed ELSE UNCHANGED PassState

DrawBase3DTransparentDesc_build ==
    /\ pass = "transparent"
    /\ phase = "unbuilt"
    /\ UNCHANGED <<World, scan, per_image, mesh_storage, tex_ready, mat_events, visibility>>
    /\ \E fail \in BuildFailures :
        LET r == DrawBase3DTransparentDesc_built(pipeline_skinned, fail)
        IN  /\ device' = r.log
            /\ phase' = BuildEnded(r.result)
            /\ pass_pipelines' = (IF r.result = "ok" THEN PipelinesOfBuilt(pipeline_skinned)
                                  ELSE pass_pipelines)
            /\ IF r.result = "ok" THEN Constructed ELSE UNCHANGED PassState

\* dispose consumes the pass (self: Box<Self>): nothing can follow it.
DrawBase3D_dispose ==
    /\ pass = "opaque"
    /\ phase \in {"idle", "drawn"}
    /\ device' = DrawBase3D_disposed(device, pass_pipelines.pipeline_skinned # None)
    /\ phase' = "disposed"
    /\ UNCHANGED <<World, pass_pipelines, scan, per_image, mesh_storage, tex_ready, mat_events, visibility, PassState>>

DrawBase3DTransparent_dispose ==
    /\ pass = "transparent"
    /\ phase \in {"idle", "drawn"}
    /\ device' = DrawBase3DTransparent_disposed(device, pass_pipelines.pipeline_skinned # None)
    /\ phase' = "disposed"
    /\ UNCHANGED <<World, pass_pipelines, scan, per_image, mesh_storage, tex_ready, mat_events, visibility, PassState>>

CanPrepare == phase \in {"idle", "drawn"} /\ Len(calls) < run_frames

DrawBase3D_prepare ==
    /\ pass = "opaque"
    /\ CanPrepare
    /\ \E i \in slots :
        LET p == OpaquePrepared(i, ecs, visibility, mesh_storage, tex_ready, mat_events,
                                static_batches, skinned_batches, mtl, hash_order,
                                pipeline_skinned)
        IN  /\ index' = i
            /\ env' = env \cup {i}
            /\ mat_events' = {}
            /\ static_batches' = p.static_batches
            /\ skinned_batches' = p.skinned_batches
            /\ mtl' = p.mtl
            /\ models' = DynamicVertex_write(models, i, p.static_count, p.static_data)
            /\ skinned_models' =
                   DynamicVertex_write(skinned_models, i, p.skinned_count, p.skinned_data)
            /\ skinning' = SkinningSub_commit(skinning, i, p.staged)
            /\ frame' = [mesh_storage |-> mesh_storage, visibility |-> visibility,
                         log |-> p.log, changed |-> p.changed, staged |-> p.staged,
                         prev_static |-> <<>>, prev_skinned |-> <<>>]
            /\ calls' = Append(calls, [index |-> i, changed |-> p.changed,
                                       result |-> p.result])
    /\ phase' = "prepared"
    /\ UNCHANGED <<Fixed, mesh_storage, tex_ready, visibility, change, encoder,
                   materials_data>>

DrawBase3D_draw_inline ==
    /\ pass = "opaque"
    /\ phase = "prepared"
    /\ encoder' = OpaqueDrawn(index, static_batches, skinned_batches, models,
                              skinned_models, mtl, hash_order, pipeline_skinned)
    /\ phase' = "drawn"
    /\ UNCHANGED <<Fixed, mesh_storage, tex_ready, mat_events, visibility, index, calls,
                   static_batches, skinned_batches, models, skinned_models, mtl,
                   skinning, change, frame, env, materials_data>>

\* The resource fetched as an optional one: the fetch always succeeds.
VisibilityFetched_optional(v) == TRUE

\* ReadExpect<Visibility>: the fetch that opens prepare needs the resource.
VisibilityFetched(v) == v.present

DrawBase3DTransparent_prepare ==
    /\ pass = "transparent"
    /\ CanPrepare
    /\ VisibilityFetched(visibility)
    /\ \E i \in slots :
        LET p == TransparentPrepared(i, ecs, visibility, mesh_storage, tex_ready,
                                     mat_events, static_batches, skinned_batches, mtl,
                                     change, pipeline_skinned)
        IN  /\ index' = i
            /\ env' = env \cup {i}
            /\ mat_events' = {}
            /\ static_batches' = p.static_batches
            /\ skinned_batches' = p.skinned_batches
            /\ mtl' = p.mtl
            /\ models' = DynamicVertex_write(models, i, p.static_count, p.static_data)
            /\ skinned_models' =
                   DynamicVertex_write(skinned_models, i, p.skinned_count, p.skinned_data)
            /\ skinning' = SkinningSub_commit(skinning, i, p.staged)
            /\ change' = p.change
            /\ frame' = [mesh_storage |-> mesh_storage, visibility |-> visibility,
                         log |-> p.log, changed |-> p.changed, staged |-> p.staged,
                         prev_static |-> Ordered_runs(static_batches),
                         prev_skinned |-> Ordered_runs(skinned_batches)]
            /\ calls' = Append(calls, [index |-> i, changed |-> p.changed,
                                       result |-> p.result])
    /\ phase' = "prepared"
    /\ UNCHANGED <<Fixed, mesh_storage, tex_ready, visibility, encoder, materials_data>>

\* The environment of slot i processed before the resources are fetched.
EnvWhenFetchPanics_processed(e, i) == e \cup {i}

\* The fetch of the resources is the first statement of prepare: when it
\* panics, self.env.process(factory, index, resources) has not run.
EnvWhenFetchPanics(e, i) == e

\* The fetch panics when the resource is missing: prepare does not return.
DrawBase3DTransparent_prepare_panic ==
    /\ pass = "transparent"
    /\ CanPrepare
    /\ ~VisibilityFetched(visibility)
    /\ \E i \in slots : env' = EnvWhenFetchPanics(env, i)
    /\ phase' = "panicked"
    /\ UNCHANGED <<Fixed, mesh_storage, tex_ready, mat_events, visibility, index, calls,
                   static_batches, skinned_batches, models, skinned_models, mtl,
                   skinning, change, frame, encoder, materials_data>>

\* The graph records the pass's commands anew only on DrawRecord.
DrawBase3DTransparent_draw_inline ==
    /\ pass = "transparent"
    /\ phase = "prepared"
    /\ calls[Len(calls)].result = "DrawRecord"
    /\ encoder' = TransparentDrawn(index, static_batches, skinned_batches, models,
                                   skinned_models, mtl, pipeline_skinned)
    /\ phase' = "drawn"
    /\ UNCHANGED <<Fixed, mesh_storage, tex_ready, mat_events, visibility, index, calls,
                   static_batches, skinned_batches, models, skinned_models, mtl,
                   skinning, change, frame, env, materials_data>>

\* On DrawReuse the graph submits the recording it has: draw_inline is not called.
SubmitReused ==
    /\ pass = "transparent"
    /\ phase = "prepared"
    /\ calls[Len(calls)].result = "DrawReuse"
    /\ phase' = "drawn"
    /\ UNCHANGED <<Fixed, mesh_storage, tex_ready, mat_events, visibility, index, calls,
                   static_batches, skinned_batches, models, skinned_models, mtl,
                   skinning, change, frame, env, encoder, materials_data>>

DrawPbm_prepare ==
    /\ pass = "pbm"
    /\ CanPrepare
    /\ \E i \in slots :
        LET p == PbmPrepared(i, ecs, mesh_storage, materials_data, hash_order, per_image,
                             ubo_offset_align, size_of, lights)
        IN  /\ index' = i
            /\ env' = env \cup {i}
            /\ materials_data' = p.materials_data
            /\ models' = DynamicVertex_write(models, i, Len(p.models), p.models)
            /\ per_image' = p.image.per_image
            /\ frame' = [NoFrame EXCEPT !.mesh_storage = mesh_storage,
                                        !.visibility = visibility,
                                        !.uploaded = p.models,
                                        !.env_uploads = p.image.uploads,
                                        !.ensured = p.image.ensured,
                                        !.replaced = p.image.replaced]
            /\ calls' = Append(calls, [index |-> i, changed |-> FALSE,
                                       result |-> p.result])
    /\ phase' = "prepared"
    /\ UNCHANGED <<World, device, pass_pipelines, scan, mesh_storage, tex_ready,
                   mat_events, visibility, static_batches, skinned_batches,
                   skinned_models, mtl, skinning, change, encoder>>

DrawPbm_draw ==
    /\ pass = "pbm"
    /\ phase = "prepared"
    /\ IF PbmDrawPanics(per_image, materials_data, index)
       THEN encoder' = encoder /\ phase' = "panicked"
       ELSE /\ encoder' = PbmDrawn(per_image, index, materials_data, hash_order)
            /\ phase' = "drawn"
    /\ UNCHANGED <<Fixed, mesh_storage, tex_ready, mat_events, visibility, index, calls,
                   static_batches, skinned_batches, models, skinned_models, mtl,
                   skinning, change, frame, env, materials_data>>

\* The mesh ids of a gathering followed step by step: one more than the
\* batches insert_batch looks at.
BatchMeshes == 1..(ScanLimit + 1)

\* One turn of the loop over the join of DrawPbm::prepare: the next entity
\* carries any material and any mesh.
DrawPbm_prepare_join_next ==
    /\ pass = "pbm"
    /\ phase = "scanning"
    /\ scan.rest > 0
    /\ \E mat \in Materials, mesh \in BatchMeshes :
        LET r == PbmLoopBody(materials_data, scan.block, mesh_storage, scan.joined + 1,
                             mat, mesh)
        IN  /\ materials_data' = r.md
            /\ scan' = [block |-> r.block, joined |-> scan.joined + 1,
                        rest |-> scan.rest - 1]
    /\ UNCHANGED <<World, device, pass_pipelines, per_image, phase, mesh_storage,
                   tex_ready, mat_events, visibility, index, calls, static_batches,
                   skinned_batches,
                   models, skinned_models, mtl, skinning, change, frame, env, encoder>>

\* The join is exhausted: the last block is flushed and prepare runs to its end.
DrawPbm_prepare_join_end ==
    /\ pass = "pbm"
    /\ phase = "scanning"
    /\ scan.rest = 0
    /\ \E i \in slots :
        LET p == PbmFinished(i, PbmFlush(materials_data, scan.block, mesh_storage),
                             hash_order, per_image, ubo_offset_align, size_of, lights)
        IN  /\ index' = i
            /\ env' = env \cup {i}
            /\ materials_data' = p.materials_data
            /\ models' = DynamicVertex_write(models, i, Len(p.models), p.models)
            /\ per_image' = p.image.per_image
            /\ frame' = [NoFrame EXCEPT !.mesh_storage = mesh_storage,
                                        !.visibility = visibility,
                                        !.uploaded = p.models,
                                        !.env_uploads = p.image.uploads,
                                        !.ensured = p.image.ensured,
                                        !.replaced = p.image.replaced]
            /\ calls' = Append(calls, [index |-> i, changed |-> FALSE,
                                       result |-> p.result])
    /\ scan' = NoScan
    /\ phase' = "prepared"
    /\ UNCHANGED <<World, device, pass_pipelines, mesh_storage, tex_ready, mat_events,
                   visibility, static_batches, skinned_batches, skinned_models, mtl,
                   skinning, change, encoder>>

\* ------------------------------------------- the world between two frames
BetweenFrames == phase \in {"idle", "drawn"} /\ Len(calls) < run_frames

\* A mesh asset finishes loading.
LoadMesh ==
    /\ BetweenFrames
    /\ \E m \in Meshes \ mesh_storage : mesh_storage' = mesh_storage \cup {m}
    /\ UNCHANGED <<Fixed, phase, tex_ready, mat_events, visibility, PassState>>

\* The textures of a material finish loading.
TexturesReady ==
    /\ BetweenFrames
    /\ \E m \in Materials \ tex_ready : tex_ready' = tex_ready \cup {m}
    /\ UNCHANGED <<Fixed, phase, mesh_storage, mat_events, visibility, PassState>>

\* A registered material's asset is modified: the next maintain() drops it.
ModifyMaterial ==
    /\ BetweenFrames
    /\ \E m \in mtl.registered \ mat_events : mat_events' = mat_events \cup {m}
    /\ UNCHANGED <<Fixed, phase, mesh_storage, tex_ready, visibility, PassState>>

\* The GPU upload of a registered material completes.
UploadMaterial ==
    /\ BetweenFrames
    /\ \E m \in mtl.registered \ mtl.loaded :
           mtl' = [mtl EXCEPT !.loaded = @ \cup {m}]
    /\ UNCHANGED <<Fixed, phase, mesh_storage, tex_ready, mat_events, visibility, index, calls,
                   static_batches, skinned_batches, models, skinned_models, skinning,
                   change, frame, env, encoder, materials_data>>

\* The visibility system publishes a new result.
SetVisibility ==
    /\ BetweenFrames
    /\ \E v \in Visibilities(pass) \ {visibility, NoVisibility} : visibility' = v
    /\ UNCHANGED <<Fixed, phase, mesh_storage, tex_ready, mat_events, PassState>>

\* The Visibility resource is taken out of the world between two frames.
RemoveVisibility ==
    /\ BetweenFrames
    /\ visibility.present
    /\ visibility' = NoVisibility
    /\ UNCHANGED <<Fixed, phase, mesh_storage, tex_ready, mat_events, PassState>>

\* An entity is flagged Hidden between two frames.
HideEntity ==
    /\ BetweenFrames
    /\ \E e \in Entities \ ecs.hiddens : ecs' = [ecs EXCEPT !.hiddens = @ \cup {e}]
    /\ UNCHANGED <<pass, pipeline_skinned, hash_order, slots, run_frames, ubo_offset_align,
                   size_of, lights, device, pass_pipelines, scan, per_image, phase,
                   mesh_storage, tex_ready, mat_events, visibility, PassState>>

\* ====================================================== specifications
\* Gathering: the three passes over every world of markers and joint sets,
\* with meshes loading between frames.
Init ==
    /\ pass \in {"opaque", "transparent", "pbm"}
    /\ pipeline_skinned \in (IF pass = "pbm" THEN {FALSE} ELSE BOOLEAN)
    /\ ecs \in (IF pass = "opaque"
                THEN {w \in Worlds(SUBSET Entities, SUBSET Entities, SUBSET Entities,
                                   SUBSET Entities) : OneMarker(w)}
                ELSE IF pass = "transparent"
                THEN Worlds(SUBSET Entities, {{}}, {{}}, {{}})
                ELSE Worlds({{}}, SUBSET Entities, {{}}, {{}}))
    /\ hash_order = Ascending(Materials)
    /\ slots = {0}
    /\ run_frames = GatherFrames
    /\ mesh_storage = {}
    /\ tex_ready = Materials
    /\ mat_events = {}
    /\ visibility \in Visibilities(pass)
    /\ DefaultDevice
    /\ Built

Next ==
    \/ DrawBase3D_prepare
    \/ DrawBase3D_draw_inline
    \/ DrawBase3DTransparent_prepare
    \/ DrawBase3DTransparent_prepare_panic
    \/ DrawBase3DTransparent_draw_inline
    \/ SubmitReused
    \/ DrawPbm_prepare
    \/ DrawPbm_draw
    \/ LoadMesh

Spec == Init /\ [][Next]_vars

\* Drawing: the opaque pass over every order of the material map and the
\* transparent pass over every back-to-front order of the entities, with every
\* mesh loaded, and textures finishing to load and the GPU uploads of
\* registered materials completing between frames.
InitDraw ==
    /\ pass \in {"opaque", "transparent"}
    /\ pipeline_skinned \in BOOLEAN
    /\ ecs \in Worlds(SUBSET Entities, {{}}, {{}}, {{}})
    /\ hash_order \in (IF pass = "opaque" THEN Perms(Materials)
                       ELSE {Ascending(Materials)})
    /\ slots = {0}
    /\ run_frames = GatherFrames
    /\ mesh_storage = Meshes
    /\ tex_ready \in SUBSET Materials
    /\ mat_events = {}
    /\ visibility \in (IF pass = "opaque" THEN {NoVisibility}
                       ELSE {Visible({}, o) : o \in Perms(Entities)})
    /\ DefaultDevice
    /\ Built

NextDraw ==
    \/ DrawBase3D_prepare
    \/ DrawBase3D_draw_inline
    \/ DrawBase3DTransparent_prepare
    \/ DrawBase3DTransparent_draw_inline
    \/ SubmitReused
    \/ TexturesReady
    \/ UploadMaterial

SpecDraw == InitDraw /\ [][NextDraw]_vars

\* Ordering: the transparent pass with the visibility system publishing new
\* back-to-front orders and material uploads completing between frames.
InitOrder ==
    /\ pass = "transparent"
    /\ pipeline_skinned \in BOOLEAN
    /\ ecs \in Worlds(SUBSET Entities, {{}}, {{}}, {{}})
    /\ hash_order = Ascending(Materials)
    /\ slots = {0}
    /\ run_frames = GatherFrames
    /\ mesh_storage = Meshes
    /\ tex_ready = Materials
    /\ mat_events = {}
    /\ visibility \in Visibilities("transparent")
    /\ DefaultDevice
    /\ Built

NextOrder ==
    \/ DrawBase3DTransparent_prepare
    \/ DrawBase3DTransparent_prepare_panic
    \/ DrawBase3DTransparent_draw_inline
    \/ SubmitReused
    \/ UploadMaterial
    \/ SetVisibility

SpecOrder == InitOrder /\ [][NextOrder]_vars

\* Change detection: the transparent pass over several frames and frame
\* slots, with the visible order changing and material assets being modified
\* between frames.
InitChange ==
    /\ pass = "transparent"
    /\ pipeline_skinned = TRUE
    /\ ecs \in Worlds(SUBSET Entities, {{}}, {{}}, {{}})
    /\ hash_order = Ascending(Materials)
    /\ slots = Slots
    /\ run_frames = MaxFrames
    /\ mesh_storage = Meshes
    /\ tex_ready = Materials
    /\ mat_events = {}
    /\ visibility \in Visibilities("transparent") \ {NoVisibility}
    /\ DefaultDevice
    /\ Built

NextChange ==
    \/ DrawBase3DTransparent_prepare
    \/ DrawBase3DTransparent_draw_inline
    \/ SubmitReused
    \/ SetVisibility
    \/ ModifyMaterial

SpecChange == InitChange /\ [][NextChange]_vars

\* The life of a pass: build, frames, dispose. Either pass, with and without
\* skinning; every call of build may fail.
InitBuild ==
    /\ pass \in {"opaque", "transparent"}
    /\ pipeline_skinned \in BOOLEAN
    /\ ecs \in Worlds({{}, {1}}, {{}}, {{}}, {{}})
    /\ hash_order = Ascending(Materials)
    /\ slots = {0}
    /\ run_frames = GatherFrames
    /\ mesh_storage = Meshes
    /\ tex_ready = Materials
    /\ mat_events = {}
    /\ visibility \in (IF pass = "opaque" THEN {NoVisibility}
                       ELSE {Visible({}, Ascending(Entities))})
    /\ DefaultDevice
    /\ phase = "unbuilt"
    /\ device = <<>>
    /\ pass_pipelines = NoPipelines
    /\ scan = NoScan
    /\ per_image = <<>>
    /\ Fresh

NextBuild ==
    \/ DrawBase3DDesc_build
    \/ DrawBase3DTransparentDesc_build
    \/ DrawBase3D_prepare
    \/ DrawBase3D_draw_inline
    \/ DrawBase3DTransparent_prepare
    \/ DrawBase3DTransparent_draw_inline
    \/ SubmitReused
    \/ DrawBase3D_dispose
    \/ DrawBase3DTransparent_dispose

SpecBuild == InitBuild /\ [][NextBuild]_vars

\* The gathering of DrawPbm::prepare followed entity by entity. It starts
\* where the join has yielded n entities of material 1, the k-th with mesh k
\* and those after the last mesh with mesh 1 again, and has 0..MaxScanSteps
\* entities left to yield.
SeedMesh(k) == ((k - 1) % (ScanLimit + 1)) + 1

RECURSIVE Scanned(_)
Scanned(n) ==
    IF n = 0 THEN [block |-> NoBlock, md |-> <<>>]
    ELSE PbmLoopBody(Scanned(n - 1).md, Scanned(n - 1).block, BatchMeshes, n, 1,
                     SeedMesh(n))

InitBatch ==
    /\ pass = "pbm"
    /\ pipeline_skinned = FALSE
    /\ ecs \in Worlds({{}}, {{}}, {{}}, {{}})
    /\ hash_order = Ascending(Materials)
    /\ slots = {0}
    /\ run_frames = 1
    /\ mesh_storage = BatchMeshes
    /\ tex_ready = Materials
    /\ mat_events = {}
    /\ visibility = NoVisibility
    /\ phase = "scanning"
    /\ device = <<>>
    /\ pass_pipelines = NoPipelines
    /\ per_image = <<>>
    /\ DefaultDevice
    /\ index = 0
    /\ calls = <<>>
    /\ static_batches = TwoLevel_new
    /\ skinned_batches = TwoLevel_new
    /\ models = DynamicVertex_new
    /\ skinned_models = DynamicVertex_new
    /\ mtl = MaterialSub_new
    /\ skinning = [i \in Slots |-> 0]
    /\ change = ChangeDetection_default
    /\ frame = NoFrame
    /\ env = {}
    /\ encoder = <<>>
    /\ \E n \in 0..(ScanLimit + 2), rest \in 0..MaxScanSteps :
        /\ scan = [block |-> Scanned(n).block, joined |-> n, rest |-> rest]
        /\ materials_data = Scanned(n).md

NextBatch ==
    \/ DrawPbm_prepare_join_next
    \/ DrawPbm_prepare_join_end
    \/ DrawPbm_draw

SpecBatch == InitBatch /\ [][NextBatch]_vars

\* Frame slots: the three passes prepared for either of two slots, with
\* entities hidden and the visibility republished between the frames.
InitSlots ==
    /\ pass \in {"opaque", "transparent", "pbm"}
    /\ pipeline_skinned \in (IF pass = "pbm" THEN {FALSE} ELSE BOOLEAN)
    /\ ecs \in (IF pass = "pbm" THEN Worlds({{}}, {{}}, {{}}, {{}})
                ELSE Worlds(SUBSET Entities, {{}}, {{}}, {{}}))
    /\ hash_order = Ascending(Materials)
    /\ slots = Slots
    /\ run_frames = GatherFrames
    /\ mesh_storage = Meshes
    /\ tex_ready = Materials
    /\ mat_events = {}
    /\ visibility \in (IF pass = "transparent" THEN Visibilities(pass) \ {NoVisibility}
                       ELSE Visibilities(pass))
    /\ DefaultDevice
    /\ Built

NextSlots ==
    \/ DrawBase3D_prepare
    \/ DrawBase3D_draw_inline
    \/ DrawBase3DTransparent_prepare
    \/ DrawBase3DTransparent_draw_inline
    \/ SubmitReused
    \/ DrawPbm_prepare
    \/ DrawPbm_draw
    \/ HideEntity
    \/ SetVisibility
    \/ RemoveVisibility
    \/ DrawBase3DTransparent_prepare_panic

SpecSlots == InitSlots /\ [][NextSlots]_vars

\* The buffers of DrawPbm: the pass over several frames and both frame slots,
\* on devices of every alignment in Aligns, for two layouts of the uniform
\* blocks and worlds with few and with more than the maximum number of
\* lights, where an entity's mesh is numbered as its material, with meshes
\* loading and entities being hidden between frames.
Aligns == {3} \cup {2 ^ k : k \in 0..MaxAlignLog}

\* A layout whose blocks are no multiples of 16 bytes.
UnpaddedSizes ==
    [Environment |-> 44, PointLight |-> 28, DirectionalLight |-> 24, SpotLight |-> 52,
     Projview |-> 128, Material |-> 36, Transform |-> 64]

LightCounts ==
    {LightsOf(1, 0, 2),
     LightsOf(MAX_POINT_LIGHTS + 1, MAX_DIR_LIGHTS + 1, MAX_SPOT_LIGHTS + 1)}

InitImage ==
    /\ pass = "pbm"
    /\ pipeline_skinned = FALSE
    /\ ecs \in {w \in Worlds({{}}, {{}}, {{}}, {{}}) : w.meshes = w.materials}
    /\ hash_order = Ascending(Materials)
    /\ slots = Slots
    /\ run_frames = MaxFrames
    /\ mesh_storage \in SUBSET Meshes
    /\ tex_ready = Materials
    /\ mat_events = {}
    /\ visibility = NoVisibility
    /\ ubo_offset_align \in Aligns
    /\ size_of \in {Std140Sizes, UnpaddedSizes}
    /\ lights \in LightCounts
    /\ phase = "idle"
    /\ device = <<>>
    /\ pass_pipelines = NoPipelines
    /\ scan = NoScan
    /\ per_image = <<>>
    /\ Fresh

NextImage ==
    \/ DrawPbm_prepare
    \/ DrawPbm_draw
    \/ LoadMesh
    \/ HideEntity

SpecImage == InitImage /\ [][NextImage]_vars

\* ============================================================ properties
\* The instance records a pass holds after gathering.
StaticData ==
    IF pass = "transparent" THEN Ordered_data(static_batches)
    ELSE TwoLevel_data(static_batches, hash_order)

SkinnedData ==
    IF pass = "transparent" THEN Ordered_data(skinned_batches)
    ELSE TwoLevel_data(skinned_batches, hash_order)

PbmData ==
    LET it == PbmIter(materials_data, hash_order)
    IN  Flatten([a \in 1..Len(it) |->
            Flatten([b \in 1..Len(it[a].batches) |-> it[a].batches[b].models])])

StaticRecorded == {StaticData[k].model : k \in 1..Len(StaticData)}
SkinnedRecorded == {SkinnedData[k].model : k \in 1..Len(SkinnedData)}
PbmRecorded == {PbmData[k].model : k \in 1..Len(PbmData)}
Recorded == StaticRecorded \cup SkinnedRecorded \cup PbmRecorded

\* C1: after prepare of DrawBase3D, DrawBase3DTransparent or DrawPbm, an
\* entity whose mesh handle is not in the mesh storage has no instance record
\* in any container of the pass.
C1_UnloadedMeshNotRecorded ==
    phase = "prepared" =>
        \A e \in Entities : ecs.meshes[e] \notin mesh_storage => e \notin Recorded

\* An entity with an unloaded mesh is left out while one sharing its material
\* is recorded.
C1_Witness ==
    /\ phase = "prepared"
    /\ \E e, f \in Entities :
        /\ ecs.meshes[e] \notin mesh_storage
        /\ ecs.materials[e] = ecs.materials[f]
        /\ e \notin Recorded
        /\ f \in Recorded

\* The records of the (material, mesh) run of a two-level container.
RunData(b, pk, sk) ==
    LET hit == {j \in 1..Len(b.map[pk]) : b.map[pk][j].sk = sk}
    IN  b.map[pk][CHOOSE j \in hit : TRUE].data

\* What a draw command reads from the instance buffer bound for its pipeline.
InstancesRead(c) ==
    LET buf == IF c.pipeline = "basic" THEN models[index] ELSE skinned_models[index]
    IN  [k \in 1..(c.end - c.start) |->
            IF c.start + k <= Len(buf) THEN [model |-> buf[c.start + k].model]
            ELSE [model |-> 0]]

RunEntities(b, pk, sk) ==
    LET d == RunData(b, pk, sk) IN [k \in 1..Len(d) |-> [model |-> d[k].model]]

\* C2: every instanced draw of DrawBase3D::draw_inline for a (material, mesh)
\* run covers the index range at which prepare wrote that run's records into
\* the slot's instance buffer, whichever batched materials are GPU-loaded.
C2_DrawRangeIsWrittenRange ==
    (pass = "opaque" /\ phase = "drawn") =>
        \A k \in 1..Len(encoder) :
            encoder[k].op = "draw" =>
                InstancesRead(encoder[k]) =
                    RunEntities(IF encoder[k].pipeline = "basic" THEN static_batches
                                ELSE skinned_batches,
                                encoder[k].mat, encoder[k].mesh)

\* The positions in the encoder of the draws that cover entity e.
DrawnAt(e) ==
    {k \in 1..Len(encoder) :
        /\ encoder[k].op = "draw"
        /\ \E j \in 1..(encoder[k].end - encoder[k].start) :
               InstancesRead(encoder[k])[j].model = e}

\* e comes before f in the back-to-front order of the frame.
Earlier(e, f) ==
    LET vo == frame.visibility.visible_ordered
    IN  \E a, b \in 1..Len(vo) : a < b /\ vo[a] = e /\ vo[b] = f

\* Both entities were gathered into the same container.
SameContainer(e, f) == (e \in SkinnedRecorded) = (f \in SkinnedRecorded)

\* C3 (as stated): in DrawBase3DTransparent::draw_inline, of any two drawn
\* entities the one earlier in visible_ordered is covered by a draw issued no
\* later than the draw covering the other, with or without joint transforms.
C3_OrderAcrossPass ==
    (pass = "transparent" /\ phase = "drawn") =>
        \A e, f \in Entities :
            Earlier(e, f) => \A ke \in DrawnAt(e), kf \in DrawnAt(f) : ke <= kf

\* C3 (amended): the order of visible_ordered is kept between two drawn
\* entities of the same container, i.e. both drawn by the basic pipeline or
\* both by the skinned pipeline.
C3_OrderWithinPipeline ==
    (pass = "transparent" /\ phase = "drawn") =>
        \A e, f \in Entities :
            (Earlier(e, f) /\ SameContainer(e, f)) =>
                \A ke \in DrawnAt(e), kf \in DrawnAt(f) : ke <= kf

\* Two entities of one container drawn by two draws, in back-to-front order.
C3_Witness ==
    /\ pass = "transparent"
    /\ phase = "drawn"
    /\ \E e, f \in Entities :
        /\ Earlier(e, f)
        /\ SameContainer(e, f)
        /\ f < e
        /\ \E ke \in DrawnAt(e), kf \in DrawnAt(f) : ke < kf

\* The records of d follow the back-to-front order of the frame.
InVisibleOrder(d) ==
    \A a, b \in 1..Len(d) : a < b => Earlier(d[a].model, d[b].model)

\* C4: after DrawBase3DTransparent::prepare the records of data() of the
\* static ordered container, and of the skinned one, are in the relative order
\* of their entities in visible_ordered, whatever their material and mesh,
\* and that sequence is what was written to the slot's instance buffer.
C4_DataInVisibleOrder ==
    (pass = "transparent" /\ phase = "prepared") =>
        /\ InVisibleOrder(StaticData)
        /\ InVisibleOrder(SkinnedData)
        /\ StaticData # <<>> => models[index] = StaticData
        /\ SkinnedData # <<>> => skinned_models[index] = SkinnedData

\* Two entities of different material and mesh recorded against storage order.
C4_Witness ==
    /\ pass = "transparent"
    /\ phase = "prepared"
    /\ Len(StaticData) = 2
    /\ StaticData[1].model > StaticData[2].model
    /\ ecs.materials[StaticData[1].model] # ecs.materials[StaticData[2].model]
    /\ ecs.meshes[StaticData[1].model] # ecs.meshes[StaticData[2].model]

\* DrawBase3D::prepare has returned and found no Visibility resource.
OpaquePreparedBlind ==
    pass = "opaque" /\ phase = "prepared" /\ ~frame.visibility.present

\* C5: with no Visibility resource, after DrawBase3D::prepare no entity
\* flagged Transparent has a record in the static or the skinned container.
C5_TransparentNotInOpaque ==
    OpaquePreparedBlind =>
        \A e \in ecs.transparent : e \notin StaticRecorded \cup SkinnedRecorded

\* C6: with no Visibility resource, after DrawBase3D::prepare no entity
\* carrying Hidden or HiddenPropagate has a record in the static or the
\* skinned container; after DrawPbm::prepare no entity carrying Hidden has a
\* record in any batch.
C6_HiddenNotBatched ==
    /\ OpaquePreparedBlind =>
           \A e \in ecs.hiddens \cup ecs.hiddens_prop :
               e \notin StaticRecorded \cup SkinnedRecorded
    /\ (pass = "pbm" /\ phase = "prepared") =>
           \A e \in ecs.hiddens : e \notin PbmRecorded

\* A hidden entity with a loaded mesh is left out of a frame that records
\* the other entity, which shares its material and mesh.
C6_Witness ==
    /\ OpaquePreparedBlind
    /\ \E e, f \in Entities :
        /\ e \in ecs.hiddens
        /\ e \notin ecs.joints
        /\ ecs.meshes[e] \in mesh_storage
        /\ GroupKey(ecs, e) = GroupKey(ecs, f)
        /\ e \notin Recorded
        /\ f \in StaticRecorded

\* Call k falls in the trailing window of a changed call: since the last call
\* that saw a change, the slot of that call has not come round again.
InWindow(k) ==
    \E j \in 1..(k - 1) :
        /\ calls[j].changed
        /\ \A l \in (j + 1)..k : ~calls[l].changed /\ calls[l].index # calls[j].index

\* C7: over any sequence of DrawBase3DTransparent::prepare calls and slot
\* indices, a call whose changed value is true returns DrawRecord, a call in
\* the trailing window of a changed call returns DrawRecord, and so DrawReuse
\* is returned only by a call with changed false outside every such window.
C7_RecordWhileChangeIsRecent ==
    pass = "transparent" =>
        \A k \in 1..Len(calls) :
            /\ calls[k].changed => calls[k].result = "DrawRecord"
            /\ InWindow(k) => calls[k].result = "DrawRecord"
            /\ calls[k].result = "DrawReuse" => (~calls[k].changed /\ ~InWindow(k))

\* A changed call, an unchanged call for the other slot that still records,
\* and the call that reuses once the changed slot has come round.
C7_Witness ==
    /\ pass = "transparent"
    /\ Len(calls) = 3
    /\ calls[1].changed
    /\ ~calls[2].changed /\ InWindow(2) /\ calls[2].result = "DrawRecord"
    /\ ~calls[3].changed /\ calls[3].result = "DrawReuse"

\* C8: the changed value DrawBase3DTransparent::prepare hands to the helper is
\* true exactly when a material insert that resolved an id reported changed,
\* or the static container's changed() holds, or the skinned container's.
C8_ChangedIsDisjunction ==
    (pass = "transparent" /\ phase = "prepared") =>
        /\ calls[Len(calls)].changed = frame.changed
        /\ frame.changed =
            (\/ \E k \in 1..Len(frame.log) : frame.log[k].some /\ frame.log[k].changed
             \/ Ordered_changed(static_batches)
             \/ Ordered_changed(skinned_batches))

\* A frame of the same shape as the one before, changed only because a
\* material was registered anew.
C8_Witness ==
    /\ pass = "transparent"
    /\ phase = "prepared"
    /\ Len(calls) >= 2
    /\ frame.changed
    /\ ~Ordered_changed(static_batches)
    /\ ~Ordered_changed(skinned_batches)
    /\ StaticData # <<>>

\* C9: for an ordered container over two consecutive frames, changed() is
\* false when the frame's sequence of (material, mesh, instance count) runs is
\* that of the frame before and true when it differs (a material added, a mesh
\* dropped, a run's count changed).
C9_ChangedIffRunsDiffer ==
    (pass = "transparent" /\ phase = "prepared") =>
        /\ Ordered_changed(static_batches) =
               (Ordered_runs(static_batches) # frame.prev_static)
        /\ Ordered_changed(skinned_batches) =
               (Ordered_runs(skinned_batches) # frame.prev_skinned)

\* A second frame that drops a mesh the first one had.
C9_Witness ==
    /\ pass = "transparent"
    /\ phase = "prepared"
    /\ Len(calls) >= 2
    /\ Ordered_changed(static_batches)
    /\ Ordered_runs(static_batches) # <<>>
    /\ \E k \in 1..Len(frame.prev_static) :
           \A j \in 1..Len(Ordered_runs(static_batches)) :
               Ordered_runs(static_batches)[j].sk # frame.prev_static[k].sk

\* C10: while no Visibility resource is present, no step of the transparent
\* pass returns a PrepareResult or touches the pass: a prepare attempted then
\* panics.
C10_PrepareWithoutVisibilityPanics ==
    [][(pass = "transparent" /\ ~visibility.present) =>
           /\ calls' = calls
           /\ PassState' = PassState
           /\ phase' \in {phase, "panicked"}]_vars

\* prepare was called without a Visibility resource and panicked.
C10_Witness ==
    /\ pass = "transparent"
    /\ phase = "panicked"
    /\ ~visibility.present
    /\ calls = <<>>

\* The last prepare returned DrawRecord: the commands in the encoder are those
\* of the draw_inline that followed it.
LastRecorded == calls # <<>> /\ calls[Len(calls)].result = "DrawRecord"

\* A step that is a call of draw_inline of DrawBase3D or DrawBase3DTransparent.
DrawStep ==
    /\ pass \in {"opaque", "transparent"}
    /\ phase = "prepared"
    /\ phase' = "drawn"
    /\ LastRecorded

\* The material buckets of a container in iteration order.
Buckets(b) ==
    IF pass = "transparent" THEN Ordered_iter(b) ELSE TwoLevel_iter(b, hash_order)

DrawsOf(enc, pipeline) ==
    SelectSeq(enc, LAMBDA c : c.op = "draw" /\ c.pipeline = pipeline)

\* The bucket of a loaded material is bound and each of its runs drawn.
BucketDrawn(enc, b, pipeline) ==
    /\ \E k \in 1..Len(enc) :
           enc[k] = Cmd("bind_material", pipeline, 1, b.pk, 0, 0, 0)
    /\ \A j \in 1..Len(b.batches) :
           \E k \in 1..Len(enc) :
               /\ enc[k].op = "draw"
               /\ enc[k].pipeline = pipeline
               /\ enc[k].mat = b.pk
               /\ enc[k].mesh = b.batches[j].sk

\* C11: in draw_inline of both passes, no descriptor set is bound and no draw
\* issued for a bucket whose material is reported not loaded, and the buckets
\* of loaded materials, before and after it, are bound and drawn.
C11_UnloadedBucketSkipped ==
    [][DrawStep =>
        /\ \A k \in 1..Len(encoder') :
               encoder'[k].op \in {"bind_material", "draw"} =>
                   MaterialSub_loaded(mtl, encoder'[k].mat)
        /\ DynamicVertex_bind(models, index) =>
               \A n \in 1..Len(Buckets(static_batches)) :
                   MaterialSub_loaded(mtl, Buckets(static_batches)[n].pk) =>
                       BucketDrawn(encoder', Buckets(static_batches)[n], "basic")
        /\ (pipeline_skinned /\ DynamicVertex_bind(skinned_models, index)) =>
               \A n \in 1..Len(Buckets(skinned_batches)) :
                   MaterialSub_loaded(mtl, Buckets(skinned_batches)[n].pk) =>
                       BucketDrawn(encoder', Buckets(skinned_batches)[n], "skinned")]_vars

\* A bucket of a material not loaded is passed over and the bucket after it drawn.
C11_Witness ==
    /\ phase = "drawn"
    /\ LastRecorded
    /\ \E n, o \in 1..Len(Buckets(static_batches)) :
        /\ n < o
        /\ ~MaterialSub_loaded(mtl, Buckets(static_batches)[n].pk)
        /\ \E k \in 1..Len(encoder) :
               encoder[k].op = "draw" /\ encoder[k].mat = Buckets(static_batches)[o].pk

\* Each range starts where the one before ended, the first at 0.
ContiguousFromZero(d) ==
    \A k \in 1..Len(d) :
        /\ d[k].start = (IF k = 1 THEN 0 ELSE d[k - 1].end)
        /\ d[k].start <= d[k].end

RECURSIVE RangesLen(_)
RangesLen(d) ==
    IF d = <<>> THEN 0 ELSE (Head(d).end - Head(d).start) + RangesLen(Tail(d))

AllBatchedLoaded ==
    \A pk \in DOMAIN static_batches.map \cup DOMAIN skinned_batches.map :
        MaterialSub_loaded(mtl, pk)

\* C12: in DrawBase3D::draw_inline, when every batched material is loaded,
\* the draws of each pipeline have contiguous ranges starting at 0 in
\* iteration order, and their lengths sum to count() of the pipeline's
\* container.
C12_RangesContiguousAndComplete ==
    [][(DrawStep /\ pass = "opaque" /\ AllBatchedLoaded) =>
        /\ ContiguousFromZero(DrawsOf(encoder', "basic"))
        /\ RangesLen(DrawsOf(encoder', "basic")) = TwoLevel_count(static_batches)
        /\ ContiguousFromZero(DrawsOf(encoder', "skinned"))
        /\ RangesLen(DrawsOf(encoder', "skinned")) = TwoLevel_count(skinned_batches)]_vars

\* Two buckets of loaded materials drawn one after the other.
C12_Witness ==
    /\ pass = "opaque"
    /\ phase = "drawn"
    /\ LastRecorded
    /\ Len(DrawsOf(encoder, "basic")) = 2
    /\ DrawsOf(encoder, "basic")[1].mat # DrawsOf(encoder, "basic")[2].mat
    /\ DrawsOf(encoder, "basic")[2].start = 1

\* C13: a DrawBase3D or DrawBase3DTransparent without skinned pipeline binds
\* one graphics pipeline per draw_inline, the basic one, and issues no
\* command of the skinned pipeline.
C13_OnePipelineWithoutSkinning ==
    (pass \in {"opaque", "transparent"} /\ ~pipeline_skinned /\ encoder # <<>>) =>
        /\ Cardinality({k \in 1..Len(encoder) :
                           encoder[k].op = "bind_graphics_pipeline"}) = 1
        /\ \A k \in 1..Len(encoder) : encoder[k].pipeline = "basic"

\* A pass without skinning draws while an entity with joint transforms exists.
C13_Witness ==
    /\ pass \in {"opaque", "transparent"}
    /\ ~pipeline_skinned
    /\ phase = "drawn"
    /\ ecs.joints # {}
    /\ DrawsOf(encoder, "basic") # <<>>

\* No command of the pipeline that needs the instance buffer is in the encoder.
NothingDrawn(enc, pipeline) ==
    \A k \in 1..Len(enc) :
        enc[k].pipeline = pipeline =>
            enc[k].op \notin {"bind_instances", "bind_skinning", "bind_material", "draw"}

\* C19: in draw_inline of both passes, when the bind of a pipeline's instance
\* buffer for the slot returns false, no descriptor set of a material (nor
\* the skinning set) is bound and no draw issued for that pipeline, and the
\* next pipeline is still processed.
C19_UnboundBufferSkipsPipeline ==
    (pass \in {"opaque", "transparent"} /\ phase = "drawn" /\ LastRecorded) =>
        /\ ~DynamicVertex_bind(models, index) =>
               /\ NothingDrawn(encoder, "basic")
               /\ pipeline_skinned =>
                      \E k \in 1..Len(encoder) :
                          encoder[k] = Cmd("bind_graphics_pipeline", "skinned", 0, 0, 0, 0, 0)
               /\ (pipeline_skinned /\ DynamicVertex_bind(skinned_models, index)) =>
                      \E k \in 1..Len(encoder) :
                          encoder[k] = Cmd("bind_skinning", "skinned", 2, 0, 0, 0, 0)
        /\ ~DynamicVertex_bind(skinned_models, index) =>
               NothingDrawn(encoder, "skinned")

\* The basic pipeline has no data and the skinned pipeline draws.
C19_Witness ==
    /\ pass = "opaque"
    /\ phase = "drawn"
    /\ LastRecorded
    /\ ~DynamicVertex_bind(models, index)
    /\ DrawsOf(encoder, "skinned") # <<>>

\* The entities the joins of the last prepare of DrawBase3D or
\* DrawBase3DTransparent yield, before the mesh and material checks.
Joined(e) ==
    /\ e \in ecs.joints => pipeline_skinned
    /\ IF pass = "transparent" THEN e \in Range(frame.visibility.visible_ordered)
       ELSE IF frame.visibility.present THEN e \in frame.visibility.visible_unordered
       ELSE /\ e \notin ecs.hiddens \cup ecs.hiddens_prop
            /\ e \in ecs.joints \/ e \notin ecs.transparent

\* C17: when the material insert returns None for a group (textures not
\* ready) its entities get no record in any batch of that frame and prepare
\* returns normally; nothing of the exclusion is kept, so a prepare that
\* finds the textures ready and the mesh loaded batches the entities,
\* whatever happened in earlier frames.
C17_UnresolvedMaterialSkippedThenRetried ==
    (pass \in {"opaque", "transparent"} /\ phase = "prepared") =>
        /\ calls[Len(calls)].result \in {"DrawRecord", "DrawReuse"}
        /\ \A e \in Entities :
            /\ ecs.materials[e] \notin tex_ready => e \notin Recorded
            /\ (/\ Joined(e)
                /\ ecs.materials[e] \in tex_ready
                /\ ecs.meshes[e] \in frame.mesh_storage) => e \in Recorded

\* The first prepare batched nothing although every entity was visible with
\* its mesh loaded; the second batches both entities.
C17_Witness ==
    /\ pass = "transparent"
    /\ phase = "prepared"
    /\ Len(calls) = 2
    /\ ecs.joints = {}
    /\ frame.prev_static = <<>>
    /\ Len(StaticData) = NumEntities
    /\ \E k \in 1..Len(frame.log) : frame.log[k].some

\* The entities whose group the last prepare inserted: joined, mesh in the
\* storage, material resolved.
Inserted(e) ==
    /\ Joined(e)
    /\ ecs.meshes[e] \in frame.mesh_storage
    /\ ecs.materials[e] \in tex_ready

\* C20: after clear_inner, the inserts of a prepare and prune, count() of an
\* unordered container equals the number of instances inserted since the
\* clear, and data() yields exactly count() records.
C20_CountIsInsertedSinceClear ==
    (pass = "opaque" /\ phase = "prepared") =>
        /\ TwoLevel_count(static_batches) =
               Cardinality({e \in Entities \ ecs.joints : Inserted(e)})
        /\ Len(TwoLevel_data(static_batches, hash_order)) = TwoLevel_count(static_batches)
        /\ TwoLevel_count(skinned_batches) =
               Cardinality({e \in ecs.joints : Inserted(e)})
        /\ Len(TwoLevel_data(skinned_batches, hash_order)) = TwoLevel_count(skinned_batches)

\* A second frame inserts two groups into a container the first frame filled.
C20_Witness ==
    /\ pass = "opaque"
    /\ phase = "prepared"
    /\ Len(calls) = 2
    /\ TwoLevel_count(static_batches) = 2
    /\ Cardinality(DOMAIN static_batches.map) = 2
    /\ Len(encoder) > 2

\* C18: when a Visibility resource is supplied, DrawBase3D::prepare batches
\* an entity only if it is in visible_unordered, and an entity of the set
\* with a loaded mesh and a pipeline for it is batched whether or not it
\* carries Hidden, HiddenPropagate or Transparent.
C18_VisibleSetReplacesMarkers ==
    (pass = "opaque" /\ phase = "prepared" /\ frame.visibility.present) =>
        Recorded = {e \in frame.visibility.visible_unordered :
                        /\ ecs.meshes[e] \in frame.mesh_storage
                        /\ ecs.materials[e] \in tex_ready
                        /\ e \in ecs.joints => pipeline_skinned}

\* A visible entity carrying a marker is batched and an entity without
\* markers outside the visible set is not.
C18_Witness ==
    /\ pass = "opaque"
    /\ phase = "prepared"
    /\ frame.visibility.present
    /\ \E e, f \in Entities :
        /\ e \in ecs.hiddens \cup ecs.hiddens_prop \cup ecs.transparent
        /\ e \in StaticRecorded
        /\ f \notin ecs.hiddens \cup ecs.hiddens_prop \cup ecs.transparent
        /\ f \notin frame.visibility.visible_unordered
        /\ ecs.meshes[f] \in frame.mesh_storage
        /\ f \notin Recorded

\* How often a call was made on the device, and where in the log.
Count(log, e) == Cardinality({k \in 1..Len(log) : log[k] = e})

Places(log, e) == {k \in 1..Len(log) : log[k] = e}

\* A resource created at most once, destroyed as often as created, and
\* never destroyed before it was created.
CreatedThenDestroyed(log, res) ==
    /\ Count(log, Ev("create", res)) <= 1
    /\ Count(log, Ev("destroy", res)) = Count(log, Ev("create", res))
    /\ \A d \in Places(log, Ev("destroy", res)) :
           \E c \in Places(log, Ev("create", res)) : c < d

\* C14: when build_pipelines returns an error after it created the pipeline
\* layout, the layout has been destroyed exactly once before the return: a
\* build that returned Err leaves no live pipeline layout.
C14_FailedBuildDestroysLayout ==
    phase = "failed" => CreatedThenDestroyed(device, "pipeline_layout")

\* The pipeline build failed after the layout was created.
C14_Witness ==
    /\ phase = "failed"
    /\ Count(device, Ev("create", "pipeline_layout")) = 1
    /\ Count(device, Ev("build", "pipelines")) = 1

ShaderModules == {"shader_vertex_basic", "shader_fragment", "shader_vertex_skinned"}

\* C15: when build_pipelines returns, with Ok or with Err, every shader
\* module it created (basic vertex, fragment, and skinned vertex when
\* skinning is requested) has been destroyed exactly once, after the
\* pipeline build attempt.
C15_ShaderModulesTransient ==
    phase \in {"idle", "failed"} =>
        /\ \A m \in ShaderModules :
            /\ CreatedThenDestroyed(device, m)
            /\ \A d \in Places(device, Ev("destroy", m)) :
                   \E b \in Places(device, Ev("build", "pipelines")) : b < d
        /\ Count(device, Ev("build", "pipelines")) = 1 =>
            /\ Count(device, Ev("create", "shader_vertex_basic")) = 1
            /\ Count(device, Ev("create", "shader_fragment")) = 1
            /\ Count(device, Ev("create", "shader_vertex_skinned")) =
                   (IF pipeline_skinned THEN 1 ELSE 0)

\* The build of the basic and the skinned pipeline failed with three modules alive.
C15_Witness ==
    /\ phase = "failed"
    /\ pipeline_skinned
    /\ \A m \in ShaderModules : Count(device, Ev("destroy", m)) = 1

PipelineResources ==
    {"pipeline_basic", "pipeline_layout"}
        \cup (IF pipeline_skinned THEN {"pipeline_skinned"} ELSE {})

\* C16: over build, any number of frames and dispose, each graphics pipeline
\* and the pipeline layout created by build are destroyed exactly once, by
\* dispose and not before, the pipelines before the layout, with the skinned
\* pipeline present or absent.
C16_DisposeDestroysOnce ==
    /\ phase = "disposed" =>
        /\ \A r \in PipelineResources :
               /\ Count(device, Ev("create", r)) = 1
               /\ Count(device, Ev("destroy", r)) = 1
        /\ ~pipeline_skinned =>
               /\ Count(device, Ev("create", "pipeline_skinned")) = 0
               /\ Count(device, Ev("destroy", "pipeline_skinned")) = 0
        /\ \A k \in Places(device, Ev("destroy", "pipeline_basic"))
                   \cup Places(device, Ev("destroy", "pipeline_skinned")) :
               \A l \in Places(device, Ev("destroy", "pipeline_layout")) : k < l
    /\ (pass \in {"opaque", "transparent"} /\ phase \in {"idle", "prepared", "drawn"}) =>
        \A r \in PipelineResources :
            /\ Count(device, Ev("create", r)) = 1
            /\ Count(device, Ev("destroy", r)) = 0

\* A pass with a skinned pipeline is disposed of after its frames.
C16_Witness ==
    /\ pass = "opaque"
    /\ phase = "disposed"
    /\ pipeline_skinned
    /\ Len(calls) = GatherFrames
    /\ encoder # <<>>

\* A step that is a call of prepare that returns.
PrepareStep == phase # "prepared" /\ phase' = "prepared"

\* The descriptor set of material k for frame slot j exists.
HasDescSet(md, k, j) == k \in DOMAIN md /\ Len(md[k].desc_set) > j

\* C21: prepare(index) writes instance, environment and material data into
\* the resources of frame slot index only: the instance buffers, the joint
\* buffer, the environment uniforms and the material descriptor sets of
\* every other slot are after the call what they were before it.
C21_OtherSlotsUntouched ==
    [][PrepareStep =>
        \A j \in Slots \ {index'} :
            /\ models'[j] = models[j]
            /\ skinned_models'[j] = skinned_models[j]
            /\ skinning'[j] = skinning[j]
            /\ j \in env' <=> j \in env
            /\ \A k \in Materials :
                   HasDescSet(materials_data, k, j) =>
                       /\ HasDescSet(materials_data', k, j)
                       /\ materials_data'[k].desc_set[j + 1] =
                              materials_data[k].desc_set[j + 1]]_vars

\* C22: every call of DrawBase3D::prepare that returns, returns DrawRecord,
\* whatever the entities, the visibility, the loaded assets and the slot.
C22_OpaqueAlwaysRecords ==
    pass = "opaque" => \A k \in 1..Len(calls) : calls[k].result = "DrawRecord"

\* A second prepare that gathers exactly what the first one gathered.
C22_Witness ==
    /\ pass = "opaque"
    /\ phase = "prepared"
    /\ Len(calls) = 2
    /\ calls[1].index # calls[2].index
    /\ frame.visibility.present
    /\ Recorded # {}
    /\ Len(encoder) > 2

\* The positions of the commands of an encoder that satisfy a test.
Where(enc, Test(_)) == {k \in 1..Len(enc) : Test(enc[k])}

\* C23: in draw_inline of both passes, every bind of a graphics pipeline is
\* followed, before any draw issued under that pipeline, by a bind of the
\* environment descriptor set at set index 0.
C23_EnvironmentBoundAfterEachPipeline ==
    pass \in {"opaque", "transparent"} =>
        \A k \in Where(encoder, LAMBDA c : c.op = "draw") :
            \E p \in Where(encoder, LAMBDA c : /\ c.op = "bind_graphics_pipeline"
                                               /\ c.pipeline = encoder[k].pipeline) :
                \E e \in Where(encoder, LAMBDA c : c.op = "bind_environment" /\ c.set = 0) :
                    p < e /\ e < k

\* C24: in draw_inline of both passes, every draw under the skinned pipeline
\* is preceded, after the bind of the skinned pipeline, by a bind of the
\* skinning descriptor set at set index 2; no draw under the basic pipeline
\* is preceded by a bind of the skinning set.
C24_SkinningSetBoundForSkinnedDraws ==
    pass \in {"opaque", "transparent"} =>
        /\ \A k \in Where(encoder, LAMBDA c : c.op = "draw" /\ c.pipeline = "skinned") :
            \E p \in Where(encoder, LAMBDA c : /\ c.op = "bind_graphics_pipeline"
                                               /\ c.pipeline = "skinned") :
                \E b \in Where(encoder, LAMBDA c : c.op = "bind_skinning" /\ c.set = 2) :
                    p < b /\ b < k
        /\ \A k \in Where(encoder, LAMBDA c : c.op = "draw" /\ c.pipeline = "basic") :
            \A b \in Where(encoder, LAMBDA c : c.op = "bind_skinning") : k < b

\* One draw_inline draws under the basic and under the skinned pipeline.
C24_Witness ==
    /\ pass \in {"opaque", "transparent"}
    /\ phase = "drawn"
    /\ DrawsOf(encoder, "basic") # <<>>
    /\ DrawsOf(encoder, "skinned") # <<>>

\* The entities DrawPbm::prepare batches: joined and with a loaded mesh.
PbmInserted(e) == e \notin ecs.hiddens /\ ecs.meshes[e] \in frame.mesh_storage

\* What the draw that follows would iterate over.
NothingToIterate ==
    IF pass = "pbm" THEN PbmIter(materials_data, hash_order) = <<>>
    ELSE Buckets(static_batches) = <<>> /\ Buckets(skinned_batches) = <<>>

\* C25: after every prepare the containers hold the records of the entities
\* gathered in that call only: the counts are the numbers of entities that
\* passed this frame's filters, whatever earlier frames held, and a prepare
\* in which no entity passes leaves the counts at 0 and nothing to iterate.
C25_ContainersHoldThisFrameOnly ==
    phase = "prepared" =>
        /\ pass = "opaque" =>
            /\ TwoLevel_count(static_batches) =
                   Cardinality({e \in Entities \ ecs.joints : Inserted(e)})
            /\ TwoLevel_count(skinned_batches) =
                   Cardinality({e \in ecs.joints : Inserted(e)})
        /\ pass = "transparent" =>
            /\ Ordered_count(static_batches) =
                   Cardinality({e \in Entities \ ecs.joints : Inserted(e)})
            /\ Ordered_count(skinned_batches) =
                   Cardinality({e \in ecs.joints : Inserted(e)})
        /\ pass = "pbm" =>
               Len(PbmData) = Cardinality({e \in Entities : PbmInserted(e)})
        /\ Recorded = (IF pass = "pbm" THEN {e \in Entities : PbmInserted(e)}
                       ELSE {e \in Entities : Inserted(e)})
        /\ Recorded = {} => NothingToIterate

\* A prepare in which no entity passes, after a frame that batched some.
C25_Witness ==
    /\ phase = "prepared"
    /\ Len(calls) = 2
    /\ DynamicVertex_bind(models, calls[1].index)
    /\ Recorded = {}
    /\ NothingToIterate

\* How many records of a data sequence belong to entity e.
RecordsOf(d, e) == Cardinality({k \in 1..Len(d) : d[k].model = e})

\* C26: after any prepare of DrawBase3D or DrawBase3DTransparent an entity
\* has at most one instance record over the static and the skinned
\* container together: an entity with joint transforms has none in the
\* static container, an entity without has none in the skinned one.
C26_OneRecordPerEntity ==
    pass \in {"opaque", "transparent"} =>
        \A e \in Entities :
            /\ RecordsOf(StaticData, e) + RecordsOf(SkinnedData, e) <= 1
            /\ e \in ecs.joints => RecordsOf(StaticData, e) = 0
            /\ e \notin ecs.joints => RecordsOf(SkinnedData, e) = 0

\* One entity is in the static container and the other in the skinned one.
C26_Witness ==
    /\ pass = "transparent"
    /\ phase = "prepared"
    /\ StaticRecorded # {}
    /\ SkinnedRecorded # {}
    /\ Recorded = Entities

\* C27: for a pass built without skinning the skinned container is empty
\* after every prepare, no joint-buffer slot is requested from the skinning
\* submodule, and an entity with joint transforms is in no batch, in no
\* instance buffer and in no draw.
C27_NoSkinningNoSkinnedBatches ==
    (pass \in {"opaque", "transparent"} /\ ~pipeline_skinned) =>
        /\ SkinnedData = <<>>
        /\ Buckets(skinned_batches) = <<>>
        /\ frame.staged = 0
        /\ \A i \in Slots : skinning[i] = 0 /\ skinned_models[i] = <<>>
        /\ \A e \in ecs.joints :
            /\ e \notin Recorded
            /\ \A i \in Slots : RecordsOf(models[i], e) = 0
            /\ DrawnAt(e) = {}

\* A frame is drawn while an entity with joint transforms is visible, its
\* mesh loaded and its material resolved.
C27_Witness ==
    /\ pass \in {"opaque", "transparent"}
    /\ ~pipeline_skinned
    /\ phase = "drawn"
    /\ DrawsOf(encoder, "basic") # <<>>
    /\ \E e \in ecs.joints : ecs.materials[e] \in mtl.loaded

\* The pass exists: build returned it and dispose has not consumed it.
PassAlive == phase \in {"idle", "prepared", "drawn"}

\* C28: a pass returned by build has pipeline_skinned present exactly when
\* it was described with skinning; pipeline_basic is the parent pipeline
\* and pipeline_skinned, when present, the child derived from it, and both
\* are built on the one pipeline layout the pass holds.
C28_SkinnedPipelineIffSkinning ==
    PassAlive =>
        LET basic == pass_pipelines.pipeline_basic
            skinned == pass_pipelines.pipeline_skinned
        IN  /\ (skinned # None) <=> pipeline_skinned
            /\ basic.parent = None
            /\ basic.layout = pass_pipelines.pipeline_layout
            /\ skinned # None =>
                /\ skinned[1].parent = Some(basic.id)
                /\ skinned[1].id # basic.id
                /\ skinned[1].layout = pass_pipelines.pipeline_layout
            /\ Count(device, Ev("create", "pipeline_layout")) = 1

\* build has returned a pass described with skinning.
C28_Witness ==
    /\ phase = "idle"
    /\ calls = <<>>
    /\ pipeline_skinned
    /\ pass_pipelines.pipeline_skinned # None
    /\ Count(device, Ev("create", "pipeline_skinned")) = 1

\* No bucket of a TwoLevelBatch is without runs and no run without records.
NoEmptyBuckets(b) ==
    \A pk \in DOMAIN b.map :
        /\ Len(b.map[pk]) > 0
        /\ \A j \in 1..Len(b.map[pk]) : Len(b.map[pk][j].data) > 0

\* C29: after DrawBase3D::prepare and after DrawPbm::prepare no material
\* bucket without mesh runs and no mesh run with zero instances is left in
\* a container of the pass.
C29_NoEmptyBucketsAfterPrepare ==
    /\ (pass = "opaque" /\ calls # <<>>) =>
        NoEmptyBuckets(static_batches) /\ NoEmptyBuckets(skinned_batches)
    /\ (pass = "pbm" /\ calls # <<>>) =>
        \A k \in DOMAIN materials_data :
            /\ Len(materials_data[k].batches) > 0
            /\ \A j \in 1..Len(materials_data[k].batches) :
                   Len(materials_data[k].batches[j].models) > 0

\* The second prepare has run on the other slot; an entity whose record the
\* first frame wrote is not gathered by it, and another one is.
C29_Witness ==
    /\ pass \in {"opaque", "pbm"}
    /\ phase = "prepared"
    /\ Len(calls) = 2
    /\ calls[1].index # calls[2].index
    /\ Recorded # {}
    /\ \E e \in ecs.hiddens :
        /\ RecordsOf(models[calls[1].index], e) = 1
        /\ e \notin Recorded
        /\ \A f \in Recorded : ecs.materials[f] # ecs.materials[e]

\* The (material, mesh, range) runs that iter() of an ordered container
\* yields, in order.
OrderedRanges(b) ==
    LET it == Ordered_iter(b)
    IN  Flatten([i \in 1..Len(it) |->
            [j \in 1..Len(it[i].batches) |->
                [pk |-> it[i].pk, sk |-> it[i].batches[j].sk,
                 start |-> it[i].batches[j].start, end |-> it[i].batches[j].end]]])

\* The ranges partition the indices of data(), and the records in a range
\* are those of entities with the range's material and mesh.
RangesPartitionData(b) ==
    LET r == OrderedRanges(b)
        d == Ordered_data(b)
    IN  /\ \A k \in 1..Len(r) : 0 <= r[k].start /\ r[k].start < r[k].end
                                /\ r[k].end <= Ordered_count(b)
        /\ \A k, l \in 1..Len(r) :
               k # l => (r[k].end <= r[l].start \/ r[l].end <= r[k].start)
        /\ \A x \in 0..(Len(d) - 1) :
               Cardinality({k \in 1..Len(r) : r[k].start <= x /\ x < r[k].end}) = 1
        /\ \A k \in 1..Len(r) : \A x \in r[k].start..(r[k].end - 1) :
               /\ x + 1 <= Len(d)
               /\ ecs.materials[d[x + 1].model] = r[k].pk
               /\ ecs.meshes[d[x + 1].model] = r[k].sk

\* C30: after DrawBase3DTransparent::prepare the ranges yielded by iterating
\* an ordered container are pairwise disjoint, lie within [0, count()), cover
\* every index of data() exactly once, and each holds only records of its
\* own (material, mesh) pair.
C30_OrderedRangesPartitionData ==
    pass = "transparent" =>
        RangesPartitionData(static_batches) /\ RangesPartitionData(skinned_batches)

\* The second frame is prepared, and the static container yields two ranges,
\* the second of them starting where the first ends.
C30_Witness ==
    /\ pass = "transparent"
    /\ phase = "prepared"
    /\ Len(calls) = 2
    /\ Len(OrderedRanges(static_batches)) = 2
    /\ OrderedRanges(static_batches)[2].start = 1
    /\ Ordered_count(static_batches) = 2

\* The joint-buffer offsets handed out by SkinningSub::insert in the last prepare.
OffsetsAllocated == {SkinningSub_insert_offset(n) : n \in 0..(frame.staged - 1)}

\* The joint-buffer offsets held by the records of the skinned container.
OffsetsReferenced == {SkinnedData[k].joints_offset : k \in 1..Len(SkinnedData)}

\* C31: every joint-buffer offset allocated by the skinning submodule's
\* insert during a prepare is referenced by an instance record inserted into
\* the skinned container in that prepare; none is allocated for an entity
\* dropped for an unloaded mesh or an unresolved material.
C31_AllocatedOffsetsReferenced ==
    (pass \in {"opaque", "transparent"} /\ phase = "prepared") =>
        OffsetsAllocated \subseteq OffsetsReferenced

\* A step in which a prepare of the transparent pass panics.
PanicStep == pass = "transparent" /\ phase # "panicked" /\ phase' = "panicked"

\* C32: when DrawBase3DTransparent::prepare fails because the Visibility
\* resource is missing, the batch containers, the environment, material and
\* skinning submodules, the instance buffers and the change-detection state
\* are as they were before the call.
C32_PanicLeavesPassUntouched ==
    [][PanicStep =>
        /\ ~visibility.present
        /\ static_batches' = static_batches
        /\ skinned_batches' = skinned_batches
        /\ env' = env
        /\ mtl' = mtl
        /\ skinning' = skinning
        /\ models' = models
        /\ skinned_models' = skinned_models
        /\ change' = change]_vars

\* A prepare has panicked on a pass that had prepared a frame with records
\* before the resource went missing.
C32_Witness ==
    /\ pass = "transparent"
    /\ phase = "panicked"
    /\ calls # <<>>
    /\ Ordered_count(static_batches) > 0
    /\ env # {}
    /\ \E i \in Slots : models[i] # <<>>

\* No material holds two batches with the same mesh id.
MeshesDistinct(md) ==
    \A k \in DOMAIN md :
        \A a, b \in 1..Len(md[k].batches) :
            a # b => md[k].batches[a].mesh_id # md[k].batches[b].mesh_id

\* C33: after DrawPbm::prepare no material holds two batches with the same
\* mesh id, for any number of distinct meshes per material and any order in
\* which the join yields the entities.
C33_OneBatchPerMesh ==
    (pass = "pbm" /\ phase \in {"prepared", "drawn"}) => MeshesDistinct(materials_data)

\* A turn of the gathering loop of DrawPbm::prepare that ends a block: the
\* block is handed to insert_batch (every mesh of the gathering is loaded).
InsertStep ==
    /\ pass = "pbm"
    /\ phase = "scanning"
    /\ phase' = "scanning"
    /\ scan.block.some
    /\ <<scan'.block.mat_id, scan'.block.mesh_id>> # <<scan.block.mat_id, scan.block.mesh_id>>

\* The batches bs2 are bs with the records appended to batch i.
ExtendedAt(bs, bs2, i, records) ==
    /\ Len(bs2) = Len(bs)
    /\ bs2[i].mesh_id = bs[i].mesh_id
    /\ bs2[i].models = bs[i].models \o records
    /\ \A j \in 1..Len(bs) : j # i => bs2[j] = bs[j]

\* The batches bs2 are bs followed by one new batch.
AppendedTo(bs, bs2, mesh_id, records) ==
    /\ Len(bs2) = Len(bs) + 1
    /\ bs2[Len(bs2)] = [mesh_id |-> mesh_id, models |-> records]
    /\ \A j \in 1..Len(bs) : bs2[j] = bs[j]

\* C34: insert_batch on a material that is present extends the first batch
\* with the same mesh id among the material's first 8 batches and otherwise
\* appends a new batch at the end; on a material not present it creates the
\* material with that one batch and no descriptor sets; nothing else changes.
C34_InsertExtendsOrAppends ==
    [][InsertStep =>
        LET mat == scan.block.mat_id
            mesh == scan.block.mesh_id
            records == scan.block.transforms
            md == materials_data
            md2 == materials_data'
        IN  /\ DOMAIN md2 = DOMAIN md \cup {mat}
            /\ \A k \in DOMAIN md : k # mat => md2[k] = md[k]
            /\ IF mat \in DOMAIN md
               THEN LET bs == md[mat].batches
                        first == {i \in 1..Len(bs) :
                                     /\ i <= ScanLimit
                                     /\ bs[i].mesh_id = mesh
                                     /\ \A j \in 1..(i - 1) : bs[j].mesh_id # mesh}
                    IN  /\ md2[mat].desc_set = md[mat].desc_set
                        /\ \A i \in first : ExtendedAt(bs, md2[mat].batches, i, records)
                        /\ first = {} => AppendedTo(bs, md2[mat].batches, mesh, records)
               ELSE /\ md2[mat].batches = <<[mesh_id |-> mesh, models |-> records]>>
                    /\ md2[mat].desc_set = <<>>]_vars

\* A material holds a batch beyond the first 8 and an earlier batch that an
\* insert has extended.
C34_Witness ==
    /\ pass = "pbm"
    /\ phase = "scanning"
    /\ 1 \in DOMAIN materials_data
    /\ Len(materials_data[1].batches) > ScanLimit
    /\ \E i \in 1..ScanLimit : Len(materials_data[1].batches[i].models) = 2

\* The instance counts of all the batches of DrawPbm, added up.
PbmBatchedCount ==
    LET it == PbmIter(materials_data, hash_order)
    IN  RangesLen([a \in 1..Len(it) |-> [start |-> 0, end |-> PbmModelsLen(it[a].batches)]])

\* C35: after DrawPbm::prepare the uploaded models sequence holds exactly
\* one transform for every joined non-hidden entity whose mesh is loaded and
\* none for any other entity; its length is the sum of the instance counts of
\* all batches.
C35_ModelsAreTheJoinedLoaded ==
    (pass = "pbm" /\ phase = "prepared") =>
        /\ \A e \in Entities :
               RecordsOf(frame.uploaded, e) = (IF PbmInserted(e) THEN 1 ELSE 0)
        /\ Len(frame.uploaded) = PbmBatchedCount
        /\ Len(frame.uploaded) > 0 => models[index] = frame.uploaded

\* Two entities of one material with different loaded meshes are uploaded
\* while the world holds no other entity to gather.
C35_Witness ==
    /\ pass = "pbm"
    /\ phase = "prepared"
    /\ Len(frame.uploaded) = 2
    /\ ecs.materials[1] = ecs.materials[2]
    /\ ecs.meshes[1] # ecs.meshes[2]

\* The draw commands of the encoder, in order.
Draws(enc) == SelectSeq(enc, LAMBDA c : c.op = "draw")

\* The batches of DrawPbm in the iteration order of materials_data.
PbmBatches ==
    LET it == PbmIter(materials_data, hash_order)
    IN  Flatten([a \in 1..Len(it) |-> it[a].batches])

\* C36: in DrawPbm::draw the instance-buffer offset bound for each batch is
\* the number of instances in all the batches before it in the iteration
\* order of materials_data, and the records that the preceding prepare
\* placed there in the slot's models buffer are the batch's own.
C36_PbmOffsetIsPrecedingCount ==
    (pass = "pbm" /\ phase = "drawn") =>
        LET d == Draws(encoder)
        IN  /\ Len(d) = Len(PbmBatches)
            /\ \A k \in 1..Len(d) :
                /\ d[k].mesh = PbmBatches[k].mesh_id
                /\ d[k].start = RunsLen([j \in 1..(k - 1) |->
                                            [data |-> PbmBatches[j].models]])
                /\ d[k].end - d[k].start = Len(PbmBatches[k].models)
                /\ d[k].end <= Len(models[index])
                /\ SubSeq(models[index], d[k].start + 1, d[k].end) = PbmBatches[k].models

\* A second material's batch is drawn behind a material with two batches.
C36_Witness ==
    /\ pass = "pbm"
    /\ phase = "drawn"
    /\ Len(Draws(encoder)) >= 3
    /\ Draws(encoder)[2].mat = Draws(encoder)[1].mat
    /\ Draws(encoder)[3].mat # Draws(encoder)[1].mat
    /\ Draws(encoder)[3].start >= 2

\* ---------------------------------------------------------------- C37
\* The PerImage of the frame slot the pass was last prepared for.
ThisImage == per_image[index + 1]

\* C37: DrawPbm::draw(index) after DrawPbm::prepare(index) does not panic.
\* While the pass is prepared for `index`, per_image is longer than index,
\* every material holds more than index descriptor sets, an image with an
\* objects set has an environment set, and where a batch is present the
\* models buffer of the slot is present; and the draw that follows never ends
\* in a panic.
C37_DrawAfterPrepareNeverPanics ==
    /\ pass = "pbm" => phase # "panicked"
    /\ (pass = "pbm" /\ phase = "prepared") =>
          /\ Len(per_image) > index
          /\ \A k \in DOMAIN materials_data : Len(materials_data[k].desc_set) > index
          /\ \A j \in 1..Len(per_image) :
                per_image[j].objects_set # None => per_image[j].environment_set # None
          /\ (\E k \in DOMAIN materials_data : materials_data[k].batches # <<>>)
                => ThisImage.models_buffer # None
          /\ ~PbmDrawPanics(per_image, materials_data, index)

\* The pass is prepared for slot 1 with batches, the frame before having been
\* prepared for slot 0; and a frame of slot 1 has been drawn.
C37_Witness ==
    /\ pass = "pbm"
    /\ phase = "drawn"
    /\ Len(calls) = 2
    /\ calls[1].index = 0
    /\ index = 1
    /\ Len(per_image) = 2
    /\ per_image[2].objects_set # None
    /\ materials_data # <<>>
    /\ Draws(encoder) # <<>>
\* ---------------------------------------------------------------- C38
\* The sub-ranges of the environment buffer the sets of an image are bound to.
BoundRanges(image) ==
    (IF image.environment_set = None THEN {}
     ELSE {image.environment_set[1].env, image.environment_set[1].plight,
           image.environment_set[1].dlight, image.environment_set[1].slight})
    \cup (IF image.objects_set = None THEN {} ELSE {image.objects_set[1].projview})

\* C38: after DrawPbm::prepare the environment buffer of the slot is at least
\* as large as the end of every sub-range uploaded into it in that prepare
\* and of every sub-range its descriptor sets are bound to (environment, the
\* three light arrays, projection/view), for every offset alignment.
C38_EnvironmentBufferHoldsEveryRange ==
    (pass = "pbm" /\ phase = "prepared") =>
        /\ ThisImage.environment_buffer # None
        /\ \A r \in frame.env_uploads \cup BoundRanges(ThisImage) :
               r.end <= ThisImage.environment_buffer[1]
\* ---------------------------------------------------------------- C39
\* The three buffers of a PerImage that prepare hands to ensure_buffer.
BufferKinds == {"environment", "material", "models"}

\* The buffer of a kind in the PerImage of slot i; None before the image is there.
BufferOf(images, i, kind) ==
    IF Len(images) <= i THEN None
    ELSE IF kind = "environment" THEN images[i + 1].environment_buffer
    ELSE IF kind = "material" THEN images[i + 1].material_buffer
    ELSE images[i + 1].models_buffer

IsPowerOfTwo(n) == \E k \in 0..30 : n = 2 ^ k

\* What holds of every ensure_buffer call whatever decides the replacement:
\* the bool returned tells whether the buffer was replaced; a replacing
\* buffer has the smallest power of two that is >= min_size; after a call
\* with min_size > 0 the buffer is there with at least min_size bytes; a
\* buffer is never dropped and its size never decreases.
EnsureOutcome(before, after, min_size, returned) ==
    /\ returned <=> after # before
    /\ returned => /\ after # None
                   /\ IsPowerOfTwo(after[1])
                   /\ after[1] >= min_size
                   /\ after[1] < 2 * min_size
    /\ min_size > 0 => after # None /\ after[1] >= min_size
    /\ before # None => after # None /\ after[1] >= before[1]

\* A prepare of DrawPbm that returns: its three ensure_buffer calls.
EnsureStep == pass = "pbm" /\ PrepareStep

\* C39 as stated: ensure_buffer replaces the buffer exactly when it is absent
\* or smaller than min_size, returning true then and false otherwise; after a
\* call with min_size > 0 the buffer has at least min_size bytes (the next
\* power of two when replaced), and its size never decreases.
C39_ReplacedWhenAbsentOrSmaller ==
    [][EnsureStep =>
        \A kind \in BufferKinds :
            LET before == BufferOf(per_image, index', kind)
                after == BufferOf(per_image', index', kind)
                min_size == frame'.ensured[kind]
                returned == frame'.replaced[kind]
            IN  /\ returned <=> (before = None \/ before[1] < min_size)
                /\ EnsureOutcome(before, after, min_size, returned)]_vars

\* C39, amended: ensure_buffer replaces the buffer exactly when its size,
\* taken as 0 when it is absent, is smaller than min_size, returning true
\* then and false otherwise: an absent buffer asked for with min_size 0 stays
\* absent and false is returned. After a call with min_size > 0 the buffer
\* has at least min_size bytes (the next power of two when replaced), and its
\* size never decreases.
C39_ReplacedWhenSizeBelowMinSize ==
    [][EnsureStep =>
        \A kind \in BufferKinds :
            LET before == BufferOf(per_image, index', kind)
                after == BufferOf(per_image', index', kind)
                min_size == frame'.ensured[kind]
                returned == frame'.replaced[kind]
            IN  /\ returned <=> (IF before = None THEN 0 ELSE before[1]) < min_size
                /\ EnsureOutcome(before, after, min_size, returned)
                /\ (before = None /\ min_size = 0) => after = None /\ ~returned]_vars

\* A slot prepared again: its environment buffer is kept, its models buffer
\* is replaced for two records, and the models buffer of the other slot,
\* prepared with nothing to draw, is still absent.
C39_Witness ==
    /\ pass = "pbm"
    /\ phase = "prepared"
    /\ Len(per_image) = 2
    /\ ~frame.replaced.environment
    /\ frame.replaced.models
    /\ frame.ensured.models = 2 * size_of.Transform
    /\ ThisImage.models_buffer # None
    /\ per_image[2 - index].models_buffer = None
    /\ per_image[2 - index].environment_buffer # None
\* ---------------------------------------------------------------- C40
\* The array lengths align_size is asked for: none, one block, and the
\* lengths of the light arrays.
ArrayLens == {0, 1, MAX_DIR_LIGHTS, MAX_POINT_LIGHTS, MAX_SPOT_LIGHTS}

BlockTypes ==
    {"Environment", "PointLight", "DirectionalLight", "SpotLight", "Projview", "Material"}

\* r is the smallest multiple of align that is >= bytes.
SmallestMultipleFrom(r, align, bytes) ==
    /\ r % align = 0
    /\ r >= bytes
    /\ r - align < bytes

\* The ranges of the environment buffer in the order they are laid out.
LaidOut(image) ==
    <<image.environment_set[1].env, image.environment_set[1].plight,
      image.environment_set[1].dlight, image.environment_set[1].slight,
      image.objects_set[1].projview>>

\* C40: align_size(align, n) is the smallest multiple of align that is >= n
\* times the element size, for every align >= 1 and n >= 0 (0 for n = 0); so
\* the consecutive sub-ranges prepare lays out in the environment buffer
\* follow one another from 0 and all start at multiples of the alignment, each
\* as long as align_size makes the block or array it holds.
C40_AlignSizeIsSmallestMultiple ==
    /\ \A t \in BlockTypes, n \in ArrayLens :
          /\ SmallestMultipleFrom(align_size(ubo_offset_align, size_of[t], n),
                                  ubo_offset_align, n * size_of[t])
          /\ n = 0 => align_size(ubo_offset_align, size_of[t], n) = 0
    /\ (pass = "pbm" /\ phase = "prepared") =>
          LET r == LaidOut(ThisImage)
              lens == <<1, MAX_POINT_LIGHTS, MAX_DIR_LIGHTS, MAX_SPOT_LIGHTS, 1>>
              types == <<"Environment", "PointLight", "DirectionalLight", "SpotLight",
                         "Projview">>
          IN  /\ r[1].start = 0
              /\ \A k \in 1..5 :
                    /\ r[k].start % ubo_offset_align = 0
                    /\ k > 1 => r[k].start = r[k - 1].end
                    /\ SmallestMultipleFrom(r[k].end - r[k].start, ubo_offset_align,
                                            lens[k] * size_of[types[k]])

\* A prepared slot on a device whose alignment divides neither the
\* Environment block nor the array of point lights: both ranges are rounded up.
C40_Witness ==
    /\ pass = "pbm"
    /\ phase = "prepared"
    /\ ubo_offset_align > 1
    /\ size_of.Environment % ubo_offset_align # 0
    /\ (MAX_POINT_LIGHTS * size_of.PointLight) % ubo_offset_align # 0
    /\ LaidOut(ThisImage)[1].end > size_of.Environment
    /\ LaidOut(ThisImage)[2].end - LaidOut(ThisImage)[2].start
           > MAX_POINT_LIGHTS * size_of.PointLight
====
